---- MODULE Spec2Model ----
(***************************************************************************)
(* Order-scraping toolkit: the record store (database.py and               *)
(* database_async.py), the two screenshot worker pools (screenshotter.py   *)
(* and screenshotter_async.py) and the concurrent page collector           *)
(* (collector_curl_cffi.py).                                               *)
(*                                                                         *)
(* One set of variables serves several specifications:                     *)
(*   SpecInsert  the store API called sequentially (insert_orders,         *)
(*               fetch_pending_task, update_task_status_from_queue)        *)
(*   SpecClaim   W callers race on one fetch_pending_task call each        *)
(*   SpecClaimErr   SpecClaim with storage exceptions in the call          *)
(*   SpecShotAsync  screenshotter_async.main: WORKER_COUNT coroutines      *)
(*   SpecShot    screenshotter.main: worker threads, driver pool, writer   *)
(*   SpecFetch   collector_curl_cffi.main: page 1, then concurrent pages   *)
(***************************************************************************)
EXTENDS Integers, Sequences, FiniteSets, TLC

\* ---------------------------------------------------------------- bounds
\* Longest batch handed to insert_orders.
MaxBatch == 2
\* Most rows the orders table holds before the model stops inserting.
MaxRows == 3
\* Worker threads / worker coroutines / concurrent callers.
MaxWorkers == 2
\* Rows in the orders table when a screenshot phase starts.
MaxTasks == 2

\* ------------------------------------------------------------ the values
\* SQL NULL / Python None.
NULL == "NULL"
OrderNames == <<"A1", "A2", "A3", "A4", "A5", "A6">>
OrderIds == {OrderNames[1], OrderNames[2]}
\* sub_order_desc as delivered: "" is the parsers' default for a missing field.
SubDescs == {""}
Titles == {"t1", "t2"}
Statuses == {"pending", "running", "completed", "failed"}

\* A record dictionary as the collectors hand it to insert_orders; the other
\* descriptive columns behave like item_title.  o.get(...) yields None for an
\* absent key or a null value: one record without order_id stands for those.
OrderDicts ==
    [order_id : OrderIds,
     sub_order_desc : SubDescs \cup {NULL},
     item_title : Titles]
    \cup {[order_id |-> NULL, sub_order_desc |-> "", item_title |-> "t1"]}

\* os.path.join("screenshots", f"{order_id}.png")
PathNames == <<"screenshots/A1.png", "screenshots/A2.png", "screenshots/A3.png",
               "screenshots/A4.png", "screenshots/A5.png", "screenshots/A6.png">>
ScreenshotPath(order_id) ==
    PathNames[CHOOSE i \in 1..Len(OrderNames) : OrderNames[i] = order_id]

VARIABLES
    db,         \* the store module in use: "database" or "database_async"
    orders,     \* the orders table: row id = position (AUTOINCREMENT, no delete)
    dbLock,     \* the SQLite file lock: "UNLOCKED", "RESERVED" or "EXCLUSIVE"
    journal,    \* the rollback journal: the table before the open transaction's
                \* UPDATE, <<>> when no claim transaction has written
    last,       \* the last store call made by the sequential client, and its result
    nworkers,   \* how many workers (or callers) were started
    pc,         \* where each worker stands
    task,       \* each worker's local `task`: the row id it selected, 0 for None
    claimCount, \* history: how often fetch_pending_task has returned each row
    orders0,    \* history: the table when the phase started
    mainpc,     \* where main() stands
    driver_pool,   \* screenshotter.driver_pool: FIFO of (driver, use_count)
    held,          \* per worker: the (driver, use_count) it took from the pool
    retries,       \* per worker: failed attempts on the current task
    results_queue, \* screenshotter.results_queue
    wpc,           \* where database_writer stands
    wresult,       \* database_writer's local 'result'
    fpc,              \* per page: where its fetch_page call stands
    attempt,          \* per page: fetch_page's loop variable
    permits,          \* free permits of SEMAPHORE
    page_batch,       \* per page: orders_to_insert
    page_ret,         \* per page: what fetch_page returned
    response_list,    \* per page: listRespDTOList of the response in hand
    caught,           \* per page: the exception class fetch_page caught last
    first_order_id,   \* per page: the first_order_id argument of its call
    first_page_orders, \* main()'s first_page_orders
    total_discovered, \* collector_curl_cffi.total_discovered
    total_inserted,   \* collector_curl_cffi.total_inserted
    seenDicts,        \* history: every record passed to insert_orders
    clicks_to_perform, \* WeidianCollector.run: its argument
    loop_i,            \* run: the loop variable i of the load-more loop
    clicks,            \* history: load-more clicks performed by run
    next_page_orders,  \* run: what the last load-more page parsed to
    response_json,     \* fetch_page: the parsed body of the response in hand
    active_parsers,    \* WeidianCollectorAsync.active_parsers
    raw_body           \* per page: the body of the order-list response of that page

storeVars == <<db, orders, dbLock, journal>>
workerVars0 == <<nworkers, pc, task, claimCount, orders0>>
workerVars == <<nworkers, pc, task, claimCount, orders0, mainpc>>
shotVars == <<driver_pool, held, retries, results_queue, wpc, wresult>>
fetchVars == <<fpc, attempt, permits, page_batch, page_ret, response_list, caught,
               first_order_id, first_page_orders, total_discovered,
               total_inserted, seenDicts, response_json, active_parsers, raw_body>>
collectVars == <<clicks_to_perform, loop_i, clicks, next_page_orders>>
vars == <<db, orders, dbLock, journal, last, nworkers, pc, task, claimCount, orders0, mainpc,
          driver_pool, held, retries, results_queue, wpc, wresult,
          fpc, attempt, permits, page_batch, page_ret, response_list, caught,
          first_order_id, first_page_orders, total_discovered,
          total_inserted, seenDicts, collectVars, response_json, active_parsers, raw_body>>

Workers == 1..MaxWorkers
NoDriver == [driver |-> 0, use_count |-> 0]
NoResult == [task_id |-> 0, status |-> "none", screenshot_path |-> NULL]

\* Pages fetched after page 1 (PAGES_TO_FETCH, 2999 in the source).
MaxPages == 2
PAGES_TO_FETCH == MaxPages
Pages == 1..(PAGES_TO_FETCH + 1)

\* The collector is not running.
\* A local name of run() that is not bound yet.
Unbound == <<"unbound">>

\* A JSON member that holds a list, holds null or is absent from its object.
Member(kind, items) == [kind |-> kind, items |-> items]

\* response.json(): the member `result` of the body: absent, null, or an
\* object that may have other members and the member listRespDTOList.
Result(kind, other, list) ==
    [result |-> [kind |-> kind, other |-> other, listRespDTOList |-> list]]

\* No response body has been received.
NoBody == [coding |-> "none", header |-> "", text |-> <<>>]

\* No response is in hand.
NoPayload == Result("unset", FALSE, Member("absent", <<>>))

NoCollect ==
    /\ clicks_to_perform = 0
    /\ loop_i = 0
    /\ clicks = 0
    /\ next_page_orders = Unbound

NoPages ==
    /\ fpc = [p \in Pages |-> "idle"]
    /\ attempt = [p \in Pages |-> 0]
    /\ permits = 0
    /\ page_batch = [p \in Pages |-> <<>>]
    /\ page_ret = [p \in Pages |-> "unset"]
    /\ response_list = [p \in Pages |-> <<>>]
    /\ caught = [p \in Pages |-> "none"]
    /\ first_order_id = [p \in Pages |-> NULL]
    /\ first_page_orders = <<>>
    /\ total_discovered = 0
    /\ total_inserted = 0
    /\ seenDicts = {}
    /\ response_json = NoPayload
    /\ active_parsers = {}
    /\ raw_body = [p \in Pages |-> NoBody]

NoFetch ==
    /\ NoPages
    /\ NoCollect

\* Neither the threaded screenshotter nor the collector is running.
NoPool ==
    /\ driver_pool = <<>>
    /\ held = [w \in Workers |-> NoDriver]
    /\ retries = [w \in Workers |-> 0]
    /\ results_queue = <<>>
    /\ wpc = "off"
    /\ wresult = NoResult
    /\ NoFetch

NoWorkers ==
    /\ nworkers = 0
    /\ pc = [w \in Workers |-> "off"]
    /\ task = [w \in Workers |-> 0]
    /\ claimCount = [i \in 1..MaxTasks |-> 0]
    /\ orders0 = <<>>
    /\ mainpc = "none"

\* ------------------------------------------------------------- the store

\* CREATE TABLE orders: order_id NOT NULL in both modules; database.py declares
\* order_id UNIQUE, database_async.py declares UNIQUE(order_id, sub_order_desc).
\* SQLite treats NULLs as distinct from each other in a UNIQUE constraint.
ConflictsAsIgnore(rows, o, module) ==
    \/ o.order_id = NULL
    \/ /\ module = "database"
       /\ \E i \in 1..Len(rows) : rows[i].order_id = o.order_id
    \/ /\ module = "database_async"
       /\ o.sub_order_desc # NULL
       /\ \E i \in 1..Len(rows) :
            /\ rows[i].order_id = o.order_id
            /\ rows[i].sub_order_desc = o.sub_order_desc

Conflicts(rows, o, module) == ConflictsAsIgnore(rows, o, module)

\* The row one INSERT creates: status 'pending', screenshot_path not set.
NewRow(o) ==
    [order_id |-> o.order_id,
     sub_order_desc |-> o.sub_order_desc,
     item_title |-> o.item_title,
     screenshot_path |-> NULL,
     status |-> "pending"]

\* What INSERT OR REPLACE would do instead: delete the conflicting rows and
\* append the new one.
RECURSIVE DropKey(_, _, _)
DropKey(rows, o, module) ==
    IF rows = <<>> THEN <<>>
    ELSE LET h == Head(rows)
             same == /\ h.order_id = o.order_id
                     /\ module = "database_async" => h.sub_order_desc = o.sub_order_desc
         IN  IF same THEN DropKey(Tail(rows), o, module)
             ELSE <<h>> \o DropKey(Tail(rows), o, module)

\* executemany(INSERT OR IGNORE ...): one statement per record, in order.  The
\* result carries the table and the change count the connection accumulates
\* (cursor.rowcount in database.py, total_changes in database_async.py).
RECURSIVE ExecuteManyIgnore(_, _, _, _)
ExecuteManyIgnore(rows, batch, module, changes) ==
    IF batch = <<>> THEN [rows |-> rows, changes |-> changes]
    ELSE IF Conflicts(rows, Head(batch), module)
         THEN ExecuteManyIgnore(rows, Tail(batch), module, changes)
         ELSE ExecuteManyIgnore(Append(rows, NewRow(Head(batch))), Tail(batch),
                                module, changes + 1)

RECURSIVE ExecuteManyReplace(_, _, _, _)
ExecuteManyReplace(rows, batch, module, changes) ==
    IF batch = <<>> THEN [rows |-> rows, changes |-> changes]
    ELSE IF Head(batch).order_id = NULL
         THEN ExecuteManyReplace(rows, Tail(batch), module, changes)
         ELSE ExecuteManyReplace(
                 Append(DropKey(rows, Head(batch), module), NewRow(Head(batch))),
                 Tail(batch), module, changes + 1)

ExecuteMany(rows, batch, module, changes) ==
    ExecuteManyIgnore(rows, batch, module, changes)

\* An insert_orders that reports the size of the batch it was given.
InsertOrdersBatchSize(rows, batch, module) ==
    [rows |-> ExecuteMany(rows, batch, module, 0).rows,
     inserted_count |-> Len(batch)]

\* insert_orders(orders_data) -> inserted_count.
\*   database.py:        executemany; commit; return cursor.rowcount
\*   database_async.py:  changes_before = total_changes; executemany; commit;
\*                       return total_changes - changes_before
\* total_changes of the fresh connection is modelled by its starting value 0.
InsertOrdersResult(rows, batch, module) ==
    LET changes_before == 0
        done == ExecuteMany(rows, batch, module, changes_before)
    IN  [rows |-> done.rows,
         inserted_count |-> done.changes - changes_before]

\* SELECT * FROM orders WHERE status = 'pending' LIMIT 1: SQLite scans the
\* table in rowid order (no index on status), so the lowest pending id.
PendingIds(rows) == {i \in 1..Len(rows) : rows[i].status = "pending"}
Min(S) == CHOOSE x \in S : \A y \in S : x <= y
SelectPending(rows) == IF PendingIds(rows) = {} THEN 0 ELSE Min(PendingIds(rows))

\* UPDATE orders SET status = 'running' WHERE id = ?
SetRunning(rows, id) == [rows EXCEPT ![id].status = "running"]

\* update_task_status_from_queue(result): the UPDATE names the row by id only.
ApplyResult(rows, result) ==
    IF result.status = "completed"
    THEN [rows EXCEPT ![result.task_id].status = "completed",
                      ![result.task_id].screenshot_path = result.screenshot_path]
    ELSE IF result.status = "failed"
    THEN [rows EXCEPT ![result.task_id].status = "failed"]
    ELSE rows

CompletedResult(rows, id) ==
    [task_id |-> id, status |-> "completed",
     screenshot_path |-> ScreenshotPath(rows[id].order_id)]

\* A result whose status is neither 'completed' nor 'failed': the store call
\* then updates nothing.
UnknownStatusResult(id) ==
    [task_id |-> id, status |-> "error", screenshot_path |-> NULL]
FailedResult(id) ==
    [task_id |-> id, status |-> "failed", screenshot_path |-> NULL]

\* SQLite's file lock (rollback journal): a reader needs no EXCLUSIVE holder, a
\* writer (RESERVED at its first write, EXCLUSIVE for BEGIN EXCLUSIVE) needs
\* the file unlocked; a connection that wants no lock always proceeds.
CanAcquire(lock, mode) ==
    CASE mode = "UNLOCKED" -> TRUE
      [] mode = "SHARED" -> lock # "EXCLUSIVE"
      [] OTHER -> lock = "UNLOCKED"

\* A BEGIN that takes no lock (a deferred transaction).
FetchBeginNoLock == "UNLOCKED"
\* database.fetch_pending_task opens its transaction with BEGIN EXCLUSIVE.
FetchBeginLock == "EXCLUSIVE"

\* ----------------------------------------- SpecInsert: sequential store API
\* The batches of at most n records.
Batches(n) == UNION {[1..k -> OrderDicts] : k \in 0..n}
NoCall == [op |-> "none", batch |-> <<>>, ret |-> 0]

InitInsert ==
    /\ db \in {"database", "database_async"}
    /\ orders = <<>>
    /\ dbLock = "UNLOCKED"
    /\ journal = <<>>
    /\ last = NoCall
    /\ NoWorkers
    /\ NoPool

\* A collector calls insert_orders(batch).
InsertOrders ==
    \E batch \in Batches(IF MaxRows - Len(orders) < MaxBatch
                          THEN MaxRows - Len(orders) ELSE MaxBatch) :
        /\ LET r == InsertOrdersResult(orders, batch, db)
           IN  /\ orders' = r.rows
               /\ last' = [op |-> "insert", batch |-> batch, ret |-> r.inserted_count]
        /\ UNCHANGED <<db, dbLock, workerVars, shotVars, fetchVars, collectVars, journal>>

\* One whole fetch_pending_task call with no other caller active.
FetchPendingTaskAlone ==
    /\ LET id == SelectPending(orders)
       IN  /\ orders' = IF id = 0 THEN orders ELSE SetRunning(orders, id)
           /\ last' = [op |-> "fetch", batch |-> <<>>, ret |-> id]
    /\ UNCHANGED <<db, dbLock, workerVars, shotVars, fetchVars, collectVars, journal>>

\* One whole update_task_status_from_queue call for a task claimed earlier.
UpdateTaskStatusAlone ==
    \E id \in 1..Len(orders) : \E ok \in BOOLEAN :
        /\ orders[id].status = "running"
        /\ orders' = ApplyResult(orders,
                        IF ok THEN CompletedResult(orders, id) ELSE FailedResult(id))
        /\ last' = [op |-> "update", batch |-> <<>>, ret |-> id]
        /\ UNCHANGED <<db, dbLock, workerVars, shotVars, fetchVars, collectVars, journal>>

NextInsert == InsertOrders \/ FetchPendingTaskAlone \/ UpdateTaskStatusAlone

SpecInsert == InitInsert /\ [][NextInsert]_vars

\* The dedup key of a record or row under each module's UNIQUE constraint.
DedupKey(o, module) ==
    IF module = "database" THEN <<o.order_id>>
    ELSE <<o.order_id, o.sub_order_desc>>

StoredKeys(rows, module) == {DedupKey(rows[i], module) : i \in 1..Len(rows)}

\* The distinct usable keys of a batch that the table does not hold yet.
NewKeys(batch, rows, module) ==
    {DedupKey(batch[k], module) :
        k \in {j \in 1..Len(batch) : batch[j].order_id # NULL}}
    \ StoredKeys(rows, module)

\* C4 (as claimed): calling insert_orders a second time with the same batch
\* returns 0 and leaves the number of stored rows unchanged.
C4_SecondInsertReturnsZero ==
    [][(last.op = "insert" /\ last'.op = "insert" /\ last'.batch = last.batch)
        => (last'.ret = 0 /\ Len(orders') = Len(orders))]_vars

\* C5 (as claimed): insert_orders returns the number of rows it created, which
\* is the number of distinct dedup keys of the batch not stored before the call.
C5_ReturnsNewKeyCount ==
    [][last'.op = "insert"
        => /\ last'.ret = Len(orders') - Len(orders)
           /\ last'.ret = Cardinality(NewKeys(last'.batch, orders, db))]_vars

\* C6: an insert_orders call leaves every stored row whose dedup key occurs in
\* the batch exactly as it was: same position, attributes, status and
\* screenshot_path.
C6_NoOverwriteOnReinsert ==
    [][last'.op = "insert"
        => \A i \in 1..Len(orders) :
              (\E k \in 1..Len(last'.batch) :
                    DedupKey(last'.batch[k], db) = DedupKey(orders[i], db))
              => (i <= Len(orders') /\ orders'[i] = orders[i])]_vars

\* C6 witness: a completed row with its screenshot has just been re-inserted
\* with a different title, and is still there as it was.
C6_Witness ==
    /\ last.op = "insert"
    /\ \E i \in 1..Len(orders) : \E k \in 1..Len(last.batch) :
          /\ orders[i].status = "completed"
          /\ orders[i].screenshot_path # NULL
          /\ DedupKey(last.batch[k], db) = DedupKey(orders[i], db)
          /\ last.batch[k].item_title # orders[i].item_title


\* --------------------------------------------- fetch_pending_task, stepwise
\* The rows a phase starts from: row i carries order id OrderNames[i].
TaskRow(i, st) ==
    [order_id |-> OrderNames[i],
     sub_order_desc |-> "",
     item_title |-> "t1",
     screenshot_path |-> IF st = "completed" THEN ScreenshotPath(OrderNames[i]) ELSE NULL,
     status |-> st]

Returns(w, got, none) ==
    /\ pc' = [pc EXCEPT ![w] = IF task[w] = 0 THEN none ELSE got]
    /\ claimCount' = IF task[w] = 0 THEN claimCount
                     ELSE [claimCount EXCEPT ![task[w]] = @ + 1]

\* database.py: sqlite3.connect(...); cursor.execute("BEGIN EXCLUSIVE").
BeginExclusive(w) ==
    /\ db = "database"
    /\ pc[w] = "fetch"
    /\ CanAcquire(dbLock, FetchBeginLock)
    /\ dbLock' = FetchBeginLock
    /\ pc' = [pc EXCEPT ![w] = "select"]
    /\ UNCHANGED <<db, orders, last, nworkers, task, claimCount, orders0, mainpc, shotVars, fetchVars, collectVars, journal>>

\* database.py: SELECT ... WHERE status = 'pending' LIMIT 1; fetchone().
SelectInTransaction(w) ==
    /\ pc[w] = "select"
    /\ task' = [task EXCEPT ![w] = SelectPending(orders)]
    /\ pc' = [pc EXCEPT ![w] = IF SelectPending(orders) = 0 THEN "commit" ELSE "update"]
    /\ UNCHANGED <<storeVars, last, nworkers, claimCount, orders0, mainpc, shotVars, fetchVars, collectVars>>

\* database.py: UPDATE orders SET status = 'running' WHERE id = task_id.
UpdateInTransaction(w) ==
    /\ pc[w] = "update"
    /\ orders' = SetRunning(orders, task[w])
    /\ journal' = orders
    /\ pc' = [pc EXCEPT ![w] = "commit"]
    /\ UNCHANGED <<db, dbLock, last, nworkers, task, claimCount, orders0, mainpc, shotVars, fetchVars, collectVars>>

\* database.py: conn.commit(); return task (or None).
CommitAndReturn(w, got, none) ==
    /\ pc[w] = "commit"
    /\ dbLock' = "UNLOCKED"
    /\ journal' = <<>>
    /\ Returns(w, got, none)
    /\ UNCHANGED <<db, orders, last, nworkers, task, orders0, mainpc, shotVars, fetchVars, collectVars>>

\* database_async.py: cursor = await db.execute(SELECT ...); await
\* cursor.fetchone(); no transaction is open (sqlite3 begins one only before
\* INSERT/UPDATE/DELETE), so the read holds no lock afterwards.
SelectAsync(w, none) ==
    /\ db = "database_async"
    /\ pc[w] = "fetch"
    /\ CanAcquire(dbLock, "SHARED")
    /\ task' = [task EXCEPT ![w] = SelectPending(orders)]
    /\ pc' = [pc EXCEPT ![w] = IF SelectPending(orders) = 0 THEN none ELSE "a_update"]
    /\ UNCHANGED <<storeVars, last, nworkers, claimCount, orders0, mainpc, shotVars, fetchVars, collectVars>>

\* database_async.py: await db.execute(UPDATE ... WHERE id = task_id): the
\* implicit BEGIN EXCLUSIVE of isolation_level='EXCLUSIVE', then the update.
UpdateAsync(w) ==
    /\ pc[w] = "a_update"
    /\ CanAcquire(dbLock, "EXCLUSIVE")
    /\ dbLock' = "EXCLUSIVE"
    /\ orders' = SetRunning(orders, task[w])
    /\ journal' = orders
    /\ pc' = [pc EXCEPT ![w] = "a_commit"]
    /\ UNCHANGED <<db, last, nworkers, task, claimCount, orders0, mainpc, shotVars, fetchVars, collectVars>>

\* database_async.py: await db.commit(); return task.
CommitAsync(w, got) ==
    /\ pc[w] = "a_commit"
    /\ dbLock' = "UNLOCKED"
    /\ journal' = <<>>
    /\ Returns(w, got, got)
    /\ UNCHANGED <<db, orders, last, nworkers, task, orders0, mainpc, shotVars, fetchVars, collectVars>>

\* ------------------------------- SpecClaim: W callers, one claim call each
InitialTables ==
    UNION {{[i \in 1..n |-> TaskRow(i, st[i])] : st \in [1..n -> Statuses]} :
              n \in 0..MaxTasks}

InitClaim ==
    /\ db \in {"database", "database_async"}
    /\ orders \in InitialTables
    /\ dbLock = "UNLOCKED"
    /\ journal = <<>>
    /\ last = NoCall
    /\ nworkers \in 0..MaxWorkers
    /\ pc = [w \in Workers |-> IF w <= nworkers THEN "fetch" ELSE "off"]
    /\ task = [w \in Workers |-> 0]
    /\ claimCount = [i \in 1..MaxTasks |-> 0]
    /\ orders0 = orders
    /\ mainpc = "none"
    /\ NoPool

NextClaim ==
    \E w \in Workers :
        \/ BeginExclusive(w)
        \/ SelectInTransaction(w)
        \/ UpdateInTransaction(w)
        \/ CommitAndReturn(w, "returned", "returned")
        \/ SelectAsync(w, "returned")
        \/ UpdateAsync(w)
        \/ CommitAsync(w, "returned")

SpecClaim == InitClaim /\ [][NextClaim]_vars

MinOf(a, b) == IF a <= b THEN a ELSE b
AllReturned == \A w \in 1..nworkers : pc[w] = "returned"
InitiallyPending == {i \in 1..Len(orders0) : orders0[i].status = "pending"}
MovedToRunning ==
    {i \in 1..Len(orders0) :
        orders0[i].status = "pending" /\ orders[i].status = "running"}
ReturnedRows == {i \in 1..Len(orders0) : claimCount[i] > 0}

\* What "exactly once" means for W callers against P pending rows: no row is
\* returned twice, and once every caller has its answer exactly min(W, P)
\* distinct rows went from pending to running, namely the returned ones.
ExactlyOnce ==
    /\ \A i \in 1..Len(orders0) : claimCount[i] <= 1
    /\ \A v, w \in 1..nworkers :
          (v # w /\ pc[v] = "returned" /\ pc[w] = "returned" /\ task[v] # 0)
          => task[v] # task[w]
    /\ AllReturned =>
          /\ Cardinality(MovedToRunning) = MinOf(nworkers, Cardinality(InitiallyPending))
          /\ ReturnedRows = MovedToRunning

\* C1: database.fetch_pending_task (threaded store) claims exactly once: for
\* every number of callers W and pending rows P, under every interleaving.
C1_ExactlyOnceThreaded == db = "database" => ExactlyOnce

\* C1 witness: more callers than pending rows have raced: one caller got the
\* row, another got None.
C1_Witness ==
    /\ db = "database"
    /\ nworkers >= 2
    /\ AllReturned
    /\ InitiallyPending # {}
    /\ \E v, w \in 1..nworkers : task[v] # 0 /\ task[w] = 0

\* C2 (as claimed): database_async.fetch_pending_task never returns a record
\* to two callers, and W callers against P pending rows claim exactly
\* min(W, P) distinct records.
C2_ExactlyOnceAsync == db = "database_async" => ExactlyOnce

\* --------------------- SpecClaimErr: fetch_pending_task, the store failing
\* Any statement of the call may raise a storage exception (sqlite3.Error:
\* the file locked past the timeout, an I/O error, a full disk).

\* The open transaction is undone: conn.rollback() in database.py, the
\* close of the connection in database_async.py.
RolledBack(rows) == IF journal = <<>> THEN rows ELSE journal

\* database.py: sqlite3.connect or cursor.execute("BEGIN EXCLUSIVE") raises.
\* Both stand before the try: the with block rolls back and the exception
\* leaves fetch_pending_task.
BeginExclusiveRaises(w) ==
    /\ db = "database"
    /\ pc[w] = "fetch"
    /\ pc' = [pc EXCEPT ![w] = "raised"]
    /\ UNCHANGED <<storeVars, last, nworkers, task, claimCount, orders0, mainpc,
                   shotVars, fetchVars, collectVars>>

\* database.py: the SELECT, the UPDATE or conn.commit() raises inside the
\* try: except Exception: conn.rollback(); return None.
RollbackAndReturnNone(w, none) ==
    /\ pc[w] \in {"select", "update", "commit"}
    /\ orders' = RolledBack(orders)
    /\ journal' = <<>>
    /\ dbLock' = "UNLOCKED"
    /\ task' = [task EXCEPT ![w] = 0]
    /\ pc' = [pc EXCEPT ![w] = none]
    /\ UNCHANGED <<db, last, nworkers, claimCount, orders0, mainpc, shotVars, fetchVars, collectVars>>

\* database_async.py: aiosqlite.connect, the SELECT or the UPDATE raises:
\* except aiosqlite.Error: return None. Nothing was written.
AsyncErrorReturnsNone(w, none) ==
    /\ db = "database_async"
    /\ pc[w] \in {"fetch", "a_update"}
    /\ task' = [task EXCEPT ![w] = 0]
    /\ pc' = [pc EXCEPT ![w] = none]
    /\ UNCHANGED <<storeVars, last, nworkers, claimCount, orders0, mainpc,
                   shotVars, fetchVars, collectVars>>

\* database_async.py: await db.commit() raises: the async with closes the
\* connection, which drops the uncommitted UPDATE; return None.
CommitAsyncFails(w, none) ==
    /\ pc[w] = "a_commit"
    /\ orders' = RolledBack(orders)
    /\ journal' = <<>>
    /\ dbLock' = "UNLOCKED"
    /\ task' = [task EXCEPT ![w] = 0]
    /\ pc' = [pc EXCEPT ![w] = none]
    /\ UNCHANGED <<db, last, nworkers, claimCount, orders0, mainpc, shotVars, fetchVars, collectVars>>

NextClaimErr ==
    \E w \in Workers :
        \/ BeginExclusive(w)
        \/ SelectInTransaction(w)
        \/ UpdateInTransaction(w)
        \/ CommitAndReturn(w, "returned", "returned")
        \/ SelectAsync(w, "returned")
        \/ UpdateAsync(w)
        \/ CommitAsync(w, "returned")
        \/ BeginExclusiveRaises(w)
        \/ RollbackAndReturnNone(w, "returned")
        \/ AsyncErrorReturnsNone(w, "returned")
        \/ CommitAsyncFails(w, "returned")

SpecClaimErr == InitClaim /\ [][NextClaimErr]_vars

\* A call of worker w is under way on row i.
InCall(w, i) ==
    pc[w] \in {"update", "commit", "a_update", "a_commit"} /\ task[w] = i

\* No row is running that was not running at the start, was returned to
\* nobody and is in no call still under way.
NoHalfClaimedRow ==
    \A i \in 1..Len(orders) :
        (orders[i].status = "running" /\ orders0[i].status # "running")
        => (claimCount[i] >= 1 \/ \E w \in Workers : InCall(w, i))

\* C11 (as claimed): whatever statement of fetch_pending_task meets a storage
\* exception, the call does not raise to the worker, and no row is left
\* running without having been returned.
C11_ErrorReturnsNone ==
    /\ \A w \in Workers : pc[w] # "raised"
    /\ NoHalfClaimedRow

\* ------------------------------------ SpecShotAsync: screenshotter_async.py
WORKER_COUNT == MaxWorkers
Terminal == {"completed", "failed"}

\* The table a collection phase leaves: every row pending.
PendingTables ==
    {[i \in 1..n |-> TaskRow(i, "pending")] : n \in 0..MaxTasks}

\* main(): the workers have been created with asyncio.create_task.
InitShotAsync ==
    /\ db = "database_async"
    /\ orders \in PendingTables
    /\ dbLock = "UNLOCKED"
    /\ journal = <<>>
    /\ last = NoCall
    /\ nworkers = WORKER_COUNT
    /\ pc = [w \in Workers |-> "fetch"]
    /\ task = [w \in Workers |-> 0]
    /\ claimCount = [i \in 1..MaxTasks |-> 0]
    /\ orders0 = orders
    /\ mainpc = "gather"
    /\ NoPool

\* screenshot_worker: new_context, new_page, goto, take_screenshot_and_crop.
\* Any of them may raise (navigation or wait timeout): the except branch.
ScreenshotAsync(w) ==
    /\ pc[w] = "work"
    /\ \E ok \in BOOLEAN :
          pc' = [pc EXCEPT ![w] = IF ok THEN "u_completed" ELSE "u_failed"]
    /\ UNCHANGED <<storeVars, last, nworkers, task, claimCount, orders0, mainpc, shotVars, fetchVars, collectVars>>

\* update_task_status_from_queue: the UPDATE opens a deferred transaction and
\* takes the RESERVED lock; its change is visible to others at the commit.
UpdateStatusAsync(w) ==
    /\ pc[w] \in {"u_completed", "u_failed"}
    /\ CanAcquire(dbLock, "RESERVED")
    /\ dbLock' = "RESERVED"
    /\ pc' = [pc EXCEPT ![w] = IF pc[w] = "u_completed" THEN "c_completed" ELSE "c_failed"]
    /\ UNCHANGED <<db, orders, last, nworkers, task, claimCount, orders0, mainpc, shotVars, fetchVars, collectVars, journal>>

\* A worker that goes on to its next claim without its status write having
\* taken effect.
CommitStatusAsyncSkipped(w) ==
    /\ pc[w] \in {"c_completed", "c_failed"}
    /\ dbLock' = "UNLOCKED"
    /\ pc' = [pc EXCEPT ![w] = "fetch"]
    /\ UNCHANGED <<db, orders, last, nworkers, task, claimCount, orders0, mainpc, shotVars, fetchVars, collectVars, journal>>

\* update_task_status_from_queue: await db.commit(); then the worker's
\* finally closes the context and the loop claims again.
CommitStatusAsync(w) ==
    /\ pc[w] \in {"c_completed", "c_failed"}
    /\ orders' = ApplyResult(orders,
                    IF pc[w] = "c_completed" THEN CompletedResult(orders, task[w])
                    ELSE FailedResult(task[w]))
    /\ dbLock' = "UNLOCKED"
    /\ pc' = [pc EXCEPT ![w] = "fetch"]
    /\ UNCHANGED <<db, last, nworkers, task, claimCount, orders0, mainpc, shotVars, fetchVars, collectVars, journal>>

\* main(): await asyncio.gather(*workers) returns once every worker has left
\* its loop; the phase is reported complete.
GatherReturns ==
    /\ mainpc = "gather"
    /\ \A w \in 1..nworkers : pc[w] = "exit"
    /\ mainpc' = "done"
    /\ UNCHANGED <<storeVars, last, nworkers, pc, task, claimCount, orders0, shotVars, fetchVars, collectVars>>

NextShotAsync ==
    \/ \E w \in Workers :
          \/ SelectAsync(w, "exit")
          \/ UpdateAsync(w)
          \/ CommitAsync(w, "work")
          \/ ScreenshotAsync(w)
          \/ UpdateStatusAsync(w)
          \/ CommitStatusAsync(w)
    \/ GatherReturns

SpecShotAsync == InitShotAsync /\ [][NextShotAsync]_vars

\* C3 (as claimed): a record's status changes only pending -> running,
\* running -> completed or running -> failed, in every run of either pipeline.
C3_StatusLifecycle ==
    [][\A i \in 1..Len(orders) :
          orders'[i].status # orders[i].status
          => <<orders[i].status, orders'[i].status>> \in
                {<<"pending", "running">>, <<"running", "completed">>,
                 <<"running", "failed">>}]_vars

\* C8 (as claimed): no step of fetch_pending_task sets a completed or failed
\* record to running (and then returns it).
C8_TerminalNeverClaimed ==
    [][\A w \in Workers :
          (pc[w] \in {"update", "a_update"} /\ pc'[w] # pc[w])
          => orders[task[w]].status \notin Terminal]_vars

MaxUseCount == 2
WORKER_THREADS == MaxWorkers
MAX_DRIVERS_IN_POOL == MaxWorkers
DRIVER_MAX_USE_COUNT == MaxUseCount
MAX_RETRIES == 3

\* results_queue.put(None)
Sentinel == [task_id |-> 0, status |-> "None", screenshot_path |-> NULL]

\* initialize_driver_pool: every creation that succeeds puts (driver, 0).
InitialPool(k) == [i \in 1..k |-> [driver |-> i, use_count |-> 0]]

\* main() after initialize_driver_pool: k of the MAX_DRIVERS_IN_POOL creations
\* succeeded; no thread has been started yet.
InitShot ==
    /\ db = "database"
    /\ orders \in PendingTables
    /\ dbLock = "UNLOCKED"
    /\ journal = <<>>
    /\ last = NoCall
    /\ nworkers = WORKER_THREADS
    /\ pc = [w \in Workers |-> "off"]
    /\ task = [w \in Workers |-> 0]
    /\ claimCount = [i \in 1..MaxTasks |-> 0]
    /\ orders0 = orders
    /\ mainpc = "check_pool"
    /\ \E k \in 0..MAX_DRIVERS_IN_POOL : driver_pool = InitialPool(k)
    /\ held = [w \in Workers |-> NoDriver]
    /\ retries = [w \in Workers |-> 0]
    /\ results_queue = <<>>
    /\ wpc = "off"
    /\ wresult = NoResult
    /\ NoFetch

\* main(): if driver_pool.empty(): return
MainAbort ==
    /\ mainpc = "check_pool"
    /\ driver_pool = <<>>
    /\ mainpc' = "aborted"
    /\ UNCHANGED <<storeVars, last, nworkers, pc, task, claimCount, orders0, shotVars, fetchVars, collectVars>>

\* main(): start the writer thread and the WORKER_THREADS workers.
MainStart ==
    /\ mainpc = "check_pool"
    /\ driver_pool # <<>>
    /\ mainpc' = "join_workers"
    /\ wpc' = "get"
    /\ pc' = [w \in Workers |-> "fetch"]
    /\ UNCHANGED <<storeVars, last, nworkers, task, claimCount, orders0,
                   driver_pool, held, retries, results_queue, wresult, fetchVars, collectVars>>

\* A retry loop that allows one attempt beyond MAX_RETRIES.
AfterAttemptOneMore(success, n) ==
    IF success THEN "fetch"
    ELSE IF n <= MAX_RETRIES THEN "get_driver"
    ELSE "put_failed"

\* A retry loop whose condition does not look at success.
AfterAttemptIgnoringSuccess(success, n) ==
    IF n < MAX_RETRIES THEN "get_driver"
    ELSE IF success THEN "fetch"
    ELSE "put_failed"

\* The worker's next step after an attempt: the while condition of the retry
\* loop and the 'if not success' that follows it.
AfterAttempt(success, n) ==
    IF success THEN "fetch"
    ELSE IF n < MAX_RETRIES THEN "get_driver"
    ELSE "put_failed"

\* A pool whose get hands out the head entry without removing it.
GetDriverShared(w) ==
    /\ pc[w] = "get_driver"
    /\ driver_pool # <<>>
    /\ held' = [held EXCEPT ![w] = Head(driver_pool)]
    /\ driver_pool' = driver_pool
    /\ pc' = [pc EXCEPT ![w] = "shoot"]
    /\ UNCHANGED <<storeVars, last, nworkers, task, claimCount, orders0, mainpc,
                   retries, results_queue, wpc, wresult, fetchVars, collectVars>>

\* screenshot_worker: driver_pool.get(timeout=300) returns an entry.
GetDriver(w) ==
    /\ pc[w] = "get_driver"
    /\ driver_pool # <<>>
    /\ held' = [held EXCEPT ![w] = Head(driver_pool)]
    /\ driver_pool' = Tail(driver_pool)
    /\ pc' = [pc EXCEPT ![w] = "shoot"]
    /\ UNCHANGED <<storeVars, last, nworkers, task, claimCount, orders0, mainpc,
                   retries, results_queue, wpc, wresult, fetchVars, collectVars>>

\* A driver_pool.get() without timeout: on an empty pool the worker waits.
GetDriverNoTimeout(w) ==
    /\ pc[w] = "get_driver"
    /\ driver_pool = <<>>
    /\ FALSE
    /\ UNCHANGED vars

\* screenshot_worker: driver_pool.get(timeout=300) raises queue.Empty; the
\* except branch counts a failed attempt, the finally has nothing to return.
GetDriverTimeout(w) ==
    /\ pc[w] = "get_driver"
    /\ driver_pool = <<>>
    /\ retries' = [retries EXCEPT ![w] = @ + 1]
    /\ pc' = [pc EXCEPT ![w] = AfterAttempt(FALSE, retries[w] + 1)]
    /\ UNCHANGED <<storeVars, last, nworkers, task, claimCount, orders0, mainpc,
                   driver_pool, held, results_queue, wpc, wresult, fetchVars, collectVars>>

\* screenshot_worker: take_single_screenshot succeeded; the completed result
\* is queued and the use count grows.
ShootOk(w) ==
    /\ pc[w] = "shoot"
    /\ results_queue' = Append(results_queue, CompletedResult(orders, task[w]))
    /\ held' = [held EXCEPT ![w].use_count = @ + 1]
    /\ pc' = [pc EXCEPT ![w] = "release_ok"]
    /\ UNCHANGED <<storeVars, last, nworkers, task, claimCount, orders0, mainpc,
                   driver_pool, retries, wpc, wresult, fetchVars, collectVars>>

\* screenshot_worker: take_single_screenshot raised; a message that looks
\* fatal forces the use count to the destruction threshold.
ShootError(w) ==
    /\ pc[w] = "shoot"
    /\ retries' = [retries EXCEPT ![w] = @ + 1]
    /\ \E fatal \in BOOLEAN :
          held' = [held EXCEPT ![w].use_count =
                      IF fatal THEN DRIVER_MAX_USE_COUNT ELSE @]
    /\ pc' = [pc EXCEPT ![w] = "release_err"]
    /\ UNCHANGED <<storeVars, last, nworkers, task, claimCount, orders0, mainpc,
                   driver_pool, results_queue, wpc, wresult, fetchVars, collectVars>>

\* webdriver.Chrome(...): an instance distinct from every instance created
\* before. Instances that were quit earlier are never referred to again, so
\* the least name that no pooled or held instance carries stands for it (the
\* instance being quit is still held at that point).
NewDriver ==
    Min({d \in 1..(MAX_DRIVERS_IN_POOL + 1) :
            /\ \A i \in 1..Len(driver_pool) : driver_pool[i].driver # d
            /\ \A v \in Workers : held[v].driver # d})

\* The worker's loop variables once the task is over (reset at lines 134-138
\* when the next task is taken).
NextRetries(w, next) ==
    [retries EXCEPT ![w] = IF next = "fetch" THEN 0 ELSE @]

\* A finally clause that puts the entry back whatever its use count.
ReturnDriverAlways(w) ==
    /\ pc[w] \in {"release_ok", "release_err"}
    /\ Len(driver_pool) < MAX_DRIVERS_IN_POOL
    /\ driver_pool' = Append(driver_pool, held[w])
    /\ held' = [held EXCEPT ![w] = NoDriver]
    /\ LET next == AfterAttempt(pc[w] = "release_ok", retries[w])
       IN  /\ pc' = [pc EXCEPT ![w] = next]
           /\ retries' = NextRetries(w, next)
    /\ UNCHANGED <<storeVars, last, nworkers, task, claimCount, orders0, mainpc,
                   results_queue, wpc, wresult, fetchVars, collectVars>>

\* screenshot_worker, finally: the use count is below the threshold, the
\* entry goes back to the pool.
ReturnDriver(w) ==
    /\ pc[w] \in {"release_ok", "release_err"}
    /\ held[w].use_count < DRIVER_MAX_USE_COUNT
    /\ Len(driver_pool) < MAX_DRIVERS_IN_POOL
    /\ driver_pool' = Append(driver_pool, held[w])
    /\ held' = [held EXCEPT ![w] = NoDriver]
    /\ LET next == AfterAttempt(pc[w] = "release_ok", retries[w])
       IN  /\ pc' = [pc EXCEPT ![w] = next]
           /\ retries' = NextRetries(w, next)
    /\ UNCHANGED <<storeVars, last, nworkers, task, claimCount, orders0, mainpc,
                   results_queue, wpc, wresult, fetchVars, collectVars>>

\* A finally clause that, at the threshold, puts the new instance and the old
\* entry as well.
RegenerateDriverKeepOld(w) ==
    /\ pc[w] \in {"release_ok", "release_err"}
    /\ held[w].use_count >= DRIVER_MAX_USE_COUNT
    /\ driver_pool' = Append(Append(driver_pool, [driver |-> NewDriver, use_count |-> 0]),
                             [held[w] EXCEPT !.use_count = 0])
    /\ held' = [held EXCEPT ![w] = NoDriver]
    /\ LET next == AfterAttempt(pc[w] = "release_ok", retries[w])
       IN  /\ pc' = [pc EXCEPT ![w] = next]
           /\ retries' = NextRetries(w, next)
    /\ UNCHANGED <<storeVars, last, nworkers, task, claimCount, orders0, mainpc,
                   results_queue, wpc, wresult, fetchVars, collectVars>>

\* screenshot_worker, finally: the threshold is reached; the driver is quit
\* and create_new_driver_instance either gives a fresh one, put as
\* (new_driver, 0), or returns None and the pool stays one short.
RegenerateDriver(w) ==
    /\ pc[w] \in {"release_ok", "release_err"}
    /\ held[w].use_count >= DRIVER_MAX_USE_COUNT
    /\ \E created \in BOOLEAN :
          IF created
          THEN /\ Len(driver_pool) < MAX_DRIVERS_IN_POOL
               /\ driver_pool' = Append(driver_pool,
                                    [driver |-> NewDriver, use_count |-> 0])
          ELSE UNCHANGED driver_pool
    /\ held' = [held EXCEPT ![w] = NoDriver]
    /\ LET next == AfterAttempt(pc[w] = "release_ok", retries[w])
       IN  /\ pc' = [pc EXCEPT ![w] = next]
           /\ retries' = NextRetries(w, next)
    /\ UNCHANGED <<storeVars, last, nworkers, task, claimCount, orders0, mainpc,
                   results_queue, wpc, wresult, fetchVars, collectVars>>

\* screenshot_worker: if not success: results_queue.put(failed)
PutFailed(w) ==
    /\ pc[w] = "put_failed"
    /\ results_queue' = Append(results_queue, FailedResult(task[w]))
    /\ retries' = [retries EXCEPT ![w] = 0]
    /\ pc' = [pc EXCEPT ![w] = "fetch"]
    /\ UNCHANGED <<storeVars, last, nworkers, task, claimCount, orders0, mainpc,
                   driver_pool, held, wpc, wresult, fetchVars, collectVars>>

\* database_writer: results_queue.get(timeout=300) returns an item; the None
\* sentinel ends the loop.
WriterGet ==
    /\ wpc = "get"
    /\ results_queue # <<>>
    /\ results_queue' = Tail(results_queue)
    /\ IF Head(results_queue) = Sentinel
       THEN wpc' = "done" /\ UNCHANGED wresult
       ELSE wpc' = "update" /\ wresult' = Head(results_queue)
    /\ UNCHANGED <<storeVars, last, workerVars, driver_pool, held, retries, fetchVars, collectVars>>

\* database_writer: results_queue.get(timeout=300) raises queue.Empty after
\* the queue stayed empty for the whole wait; the writer exits.
WriterTimeout ==
    /\ wpc = "get"
    /\ results_queue = <<>>
    /\ wpc' = "done"
    /\ UNCHANGED <<storeVars, last, workerVars, driver_pool, held, retries,
                   results_queue, wresult, fetchVars, collectVars>>

\* database.update_task_status_from_queue: the UPDATE takes the RESERVED lock.
WriterUpdate ==
    /\ wpc = "update"
    /\ CanAcquire(dbLock, "RESERVED")
    /\ dbLock' = "RESERVED"
    /\ wpc' = "commit"
    /\ UNCHANGED <<db, orders, last, workerVars, driver_pool, held, retries,
                   results_queue, wresult, fetchVars, collectVars, journal>>

\* database.update_task_status_from_queue: conn.commit()
WriterCommit ==
    /\ wpc = "commit"
    /\ orders' = ApplyResult(orders, wresult)
    /\ dbLock' = "UNLOCKED"
    /\ wpc' = "get"
    /\ UNCHANGED <<db, last, workerVars, driver_pool, held, retries,
                   results_queue, wresult, fetchVars, collectVars, journal>>

\* main(): every worker thread has been joined; results_queue.put(None)
MainPutSentinel ==
    /\ mainpc = "join_workers"
    /\ \A w \in 1..nworkers : pc[w] = "exit"
    /\ results_queue' = Append(results_queue, Sentinel)
    /\ mainpc' = "join_writer"
    /\ UNCHANGED <<storeVars, last, nworkers, pc, task, claimCount, orders0,
                   driver_pool, held, retries, wpc, wresult, fetchVars, collectVars>>

\* main(): writer_thread.join() returns, the remaining drivers are quit and
\* the phase is reported complete.
MainFinish ==
    /\ mainpc = "join_writer"
    /\ wpc = "done"
    /\ driver_pool' = <<>>
    /\ mainpc' = "done"
    /\ UNCHANGED <<storeVars, last, nworkers, pc, task, claimCount, orders0,
                   held, retries, results_queue, wpc, wresult, fetchVars, collectVars>>

NextShot ==
    \/ MainAbort
    \/ MainStart
    \/ \E w \in Workers :
          \/ BeginExclusive(w)
          \/ SelectInTransaction(w)
          \/ UpdateInTransaction(w)
          \/ CommitAndReturn(w, "get_driver", "exit")
          \/ GetDriver(w)
          \/ GetDriverTimeout(w)
          \/ ShootOk(w)
          \/ ShootError(w)
          \/ ReturnDriver(w)
          \/ RegenerateDriver(w)
          \/ PutFailed(w)
    \/ WriterGet
    \/ WriterTimeout
    \/ WriterUpdate
    \/ WriterCommit
    \/ MainPutSentinel
    \/ MainFinish

SpecShot == InitShot /\ [][NextShot]_vars

\* C9 (as claimed): once screenshotter.main has reported completion, every
\* record that was pending at the start is completed or failed.
C9_ThreadedEndState ==
    mainpc = "done" /\ db = "database"
    => \A i \in InitiallyPending : orders[i].status \in Terminal

\* --------------------------------------- SpecFetch: collector_curl_cffi.py
\* Permits of SEMAPHORE (CONCURRENT_REQUESTS, 6 in the source).
MaxConcurrent == 1
CONCURRENT_REQUESTS == MaxConcurrent
RETRY_COUNT == 3

\* Records of listRespDTOList. "ABSENT" stands for a sub order without the
\* sub_order_desc key, NULL for the key present with a JSON null.
ABSENT == "ABSENT"
RawRecords ==
    [order_id : {OrderNames[1]}, sub_order_desc : {ABSENT, NULL, ""}, item_title : {"t1"}]
    \cup {[order_id |-> OrderNames[2], sub_order_desc |-> "", item_title |-> "t1"]}

\* Most records in one response (page_size, 10 in the source).
MaxPageSize == 1

\* A response with a non-empty listRespDTOList.
RecordLists == UNION {[1..k -> RawRecords] : k \in 1..MaxPageSize}

\* OrderData(...): sub_order.get("sub_order_desc", "") gives "" only when the
\* key is absent; a JSON null stays None.
OrderDataOf(raw) ==
    [order_id |-> raw.order_id,
     sub_order_desc |-> IF raw.sub_order_desc = ABSENT THEN "" ELSE raw.sub_order_desc,
     item_title |-> raw.item_title]

\* OrderData.to_dict(): one dictionary entry per field, values unchanged.
ToDict(order_data) == order_data

ParseAndPrepareOrders(list) ==
    [k \in 1..Len(list) |-> ToDict(OrderDataOf(list[k]))]

\* The table as earlier runs may have left it.
StoredBefore ==
    {<<>>, <<NewRow([order_id |-> OrderNames[1], sub_order_desc |-> "", item_title |-> "t1"])>>}

\* main() has initialized the store and awaits fetch_page(session, page_no=1).
InitFetch ==
    /\ db = "database_async"
    /\ orders \in StoredBefore
    /\ dbLock = "UNLOCKED"
    /\ journal = <<>>
    /\ last = NoCall
    /\ nworkers = 0
    /\ pc = [w \in Workers |-> "off"]
    /\ task = [w \in Workers |-> 0]
    /\ claimCount = [i \in 1..MaxTasks |-> 0]
    /\ orders0 = orders
    /\ mainpc = "page1"
    /\ driver_pool = <<>>
    /\ held = [w \in Workers |-> NoDriver]
    /\ retries = [w \in Workers |-> 0]
    /\ results_queue = <<>>
    /\ wpc = "off"
    /\ wresult = NoResult
    /\ fpc = [p \in Pages |-> IF p = 1 THEN "wait_sem" ELSE "idle"]
    /\ attempt = [p \in Pages |-> 0]
    /\ permits = CONCURRENT_REQUESTS
    /\ page_batch = [p \in Pages |-> <<>>]
    /\ page_ret = [p \in Pages |-> "unset"]
    /\ response_list = [p \in Pages |-> <<>>]
    /\ caught = [p \in Pages |-> "none"]
    /\ first_order_id = [p \in Pages |-> NULL]
    /\ first_page_orders = <<>>
    /\ total_discovered = 0
    /\ total_inserted = 0
    /\ seenDicts = {}
    /\ response_json = NoPayload
    /\ active_parsers = {}
    /\ raw_body = [p \in Pages |-> NoBody]
    /\ NoCollect

otherVars == <<db, last, workerVars0, shotVars, collectVars, response_json,
               active_parsers, raw_body>>
callVars == <<first_order_id, first_page_orders>>

\* fetch_page: param_dict; statusOrderId is set only for a truthy anchor.
ParamDict(page_no, anchor) ==
    [page_no |-> page_no,
     statusOrderId |-> IF anchor \in {NULL, ""} THEN ABSENT ELSE anchor]

\* fetch_page: async with SEMAPHORE (entry)
AcquireSemaphore(p) ==
    /\ fpc[p] = "wait_sem"
    /\ permits > 0
    /\ permits' = permits - 1
    /\ fpc' = [fpc EXCEPT ![p] = "post"]
    /\ UNCHANGED <<orders, dbLock, mainpc, otherVars, attempt, page_batch, page_ret,
                   response_list, caught, callVars,
                   total_discovered, total_inserted, seenDicts, journal>>

\* A return that gives the permit back only when the page did not fail.
ReturnKeepingPermit(p, value) ==
    /\ fpc' = [fpc EXCEPT ![p] = "done"]
    /\ page_ret' = [page_ret EXCEPT ![p] = value]
    /\ page_batch' = [page_batch EXCEPT ![p] = <<>>]
    /\ response_list' = [response_list EXCEPT ![p] = <<>>]
    /\ attempt' = [attempt EXCEPT ![p] = 0]
    /\ permits' = IF value = "None" THEN permits ELSE permits + 1

\* fetch_page returns: the loop variables die, the permit is released.
Return(p, value) ==
    /\ fpc' = [fpc EXCEPT ![p] = "done"]
    /\ page_ret' = [page_ret EXCEPT ![p] = value]
    /\ page_batch' = [page_batch EXCEPT ![p] = <<>>]
    /\ response_list' = [response_list EXCEPT ![p] = <<>>]
    /\ attempt' = [attempt EXCEPT ![p] = 0]
    /\ permits' = permits + 1

\* fetch_page: the response parses to a non-empty orders_to_insert.  The
\* loop variable is not read again on this path; the list of the response is
\* kept for the page-1 call only, whose return value main() reads (the values
\* of the page tasks are dropped with gather's result).
PostRecords(p) ==
    /\ fpc[p] = "post"
    /\ \E list \in RecordLists :
          /\ response_list' = [response_list EXCEPT ![p] = IF p = 1 THEN list ELSE <<>>]
          /\ page_batch' = [page_batch EXCEPT ![p] = ParseAndPrepareOrders(list)]
    /\ fpc' = [fpc EXCEPT ![p] = "execute"]
    /\ attempt' = [attempt EXCEPT ![p] = 0]
    /\ UNCHANGED <<orders, dbLock, mainpc, otherVars, permits, page_ret,
                   caught, callVars,
                   total_discovered, total_inserted, seenDicts, journal>>

\* fetch_page: nothing to insert (no result, null or empty list): return []
PostEmpty(p) ==
    /\ fpc[p] = "post"
    /\ Return(p, "empty")
    /\ UNCHANGED <<orders, dbLock, mainpc, otherVars, caught, callVars,
                   total_discovered, total_inserted, seenDicts, journal>>

\* A CurlError handler that allows one attempt beyond RETRY_COUNT.
PostCurlErrorOneMore(p) ==
    /\ fpc[p] = "post"
    /\ caught' = [caught EXCEPT ![p] = "CurlError"]
    /\ IF attempt[p] < RETRY_COUNT
       THEN /\ fpc' = [fpc EXCEPT ![p] = "retry_sleep"]
            /\ UNCHANGED <<attempt, permits, page_batch, page_ret, response_list>>
       ELSE Return(p, "None")
    /\ UNCHANGED <<orders, dbLock, mainpc, otherVars, callVars,
                   total_discovered, total_inserted, seenDicts, journal>>

\* fetch_page: except CurlError; sleep and try again while attempts remain,
\* else return None.
PostCurlError(p) ==
    /\ fpc[p] = "post"
    /\ caught' = [caught EXCEPT ![p] = "CurlError"]
    /\ IF attempt[p] < RETRY_COUNT - 1
       THEN /\ fpc' = [fpc EXCEPT ![p] = "retry_sleep"]
            /\ UNCHANGED <<attempt, permits, page_batch, page_ret, response_list>>
       ELSE Return(p, "None")
    /\ UNCHANGED <<orders, dbLock, mainpc, otherVars, callVars,
                   total_discovered, total_inserted, seenDicts, journal>>

\* fetch_page: await asyncio.sleep(RETRY_DELAY_SECONDS) is over; next attempt.
RetrySleepDone(p) ==
    /\ fpc[p] = "retry_sleep"
    /\ attempt' = [attempt EXCEPT ![p] = @ + 1]
    /\ caught' = [caught EXCEPT ![p] = "none"]
    /\ fpc' = [fpc EXCEPT ![p] = "post"]
    /\ UNCHANGED <<orders, dbLock, mainpc, otherVars, permits, page_batch, page_ret,
                   response_list, callVars,
                   total_discovered, total_inserted, seenDicts, journal>>

\* fetch_page: except Exception (a body that is not JSON, a list entry of an
\* unexpected shape): return None without another attempt.
PostFatalError(p) ==
    /\ fpc[p] = "post"
    /\ caught' = [caught EXCEPT ![p] = "Exception"]
    /\ Return(p, "None")
    /\ UNCHANGED <<orders, dbLock, mainpc, otherVars, callVars,
                   total_discovered, total_inserted, seenDicts, journal>>

\* database_async.insert_orders: executemany takes the write lock.
InsertExecuteMany(p) ==
    /\ fpc[p] = "execute"
    /\ CanAcquire(dbLock, "RESERVED")
    /\ dbLock' = "RESERVED"
    /\ fpc' = [fpc EXCEPT ![p] = "commit"]
    /\ UNCHANGED <<orders, mainpc, otherVars, attempt, permits, page_batch, page_ret,
                   response_list, caught, callVars,
                   total_discovered, total_inserted, seenDicts, journal>>

\* database_async.insert_orders: commit and return; fetch_page adds to the
\* two counters without awaiting in between; orders_to_insert is not read
\* again.
InsertCommit(p) ==
    /\ fpc[p] = "commit"
    /\ LET r == InsertOrdersResult(orders, page_batch[p], db)
       IN  /\ orders' = r.rows
           /\ total_inserted' = total_inserted + r.inserted_count
    /\ total_discovered' = total_discovered + Len(page_batch[p])
    /\ seenDicts' = seenDicts \cup {page_batch[p][k] : k \in 1..Len(page_batch[p])}
    /\ dbLock' = "UNLOCKED"
    /\ fpc' = [fpc EXCEPT ![p] = "sleep"]
    /\ page_batch' = [page_batch EXCEPT ![p] = <<>>]
    /\ UNCHANGED <<mainpc, otherVars, attempt, permits, page_ret,
                   response_list, caught, callVars, journal>>

\* fetch_page: the polite sleep is over; return the list of the response.
\* main() keeps the value of the page-1 call in first_page_orders.
PoliteSleepDone(p) ==
    /\ fpc[p] = "sleep"
    /\ Return(p, "records")
    /\ first_page_orders' = IF p = 1 THEN response_list[p] ELSE first_page_orders
    /\ UNCHANGED <<orders, dbLock, mainpc, otherVars, caught, first_order_id,
                   total_discovered, total_inserted, seenDicts, journal>>

\* A main() that goes on to the page tasks although page 1 gave nothing.
MainStopDispatching ==
    /\ mainpc = "page1"
    /\ fpc[1] = "done"
    /\ page_ret[1] \in {"None", "empty"}
    /\ fpc' = [p \in Pages |-> IF p >= 2 THEN "wait_sem" ELSE fpc[p]]
    /\ mainpc' = "gather"
    /\ UNCHANGED <<orders, dbLock, otherVars, attempt, permits, page_batch, page_ret,
                   response_list, caught, callVars,
                   total_discovered, total_inserted, seenDicts, journal>>

\* main(): page 1 returned None or an empty list: return
MainStop ==
    /\ mainpc = "page1"
    /\ fpc[1] = "done"
    /\ page_ret[1] \in {"None", "empty"}
    /\ mainpc' = "stopped"
    /\ UNCHANGED <<orders, dbLock, otherVars, fetchVars, journal>>

\* A fan-out that passes no anchor to the page tasks.
MainCreateTasksNoAnchor ==
    /\ mainpc = "page1"
    /\ fpc[1] = "done"
    /\ page_ret[1] = "records"
    /\ fpc' = [p \in Pages |-> IF p >= 2 THEN "wait_sem" ELSE fpc[p]]
    /\ mainpc' = "gather"
    /\ UNCHANGED <<orders, dbLock, otherVars, attempt, permits, page_batch, page_ret,
                   response_list, caught, callVars,
                   total_discovered, total_inserted, seenDicts, journal>>

\* main(): page 1 gave the anchor; create_task for pages 2..PAGES_TO_FETCH+1
\* with first_order_id = first_page_orders[0].get("order_id"), and await
\* asyncio.gather(*tasks).
MainCreateTasks ==
    /\ mainpc = "page1"
    /\ fpc[1] = "done"
    /\ page_ret[1] = "records"
    /\ fpc' = [p \in Pages |-> IF p >= 2 THEN "wait_sem" ELSE fpc[p]]
    /\ first_order_id' = [p \in Pages |->
                            IF p >= 2 THEN first_page_orders[1].order_id
                            ELSE first_order_id[p]]
    /\ mainpc' = "gather"
    /\ UNCHANGED <<orders, dbLock, otherVars, attempt, permits, page_batch, page_ret,
                   response_list, caught, first_page_orders,
                   total_discovered, total_inserted, seenDicts, journal>>

\* A gather that returns only when no page task has failed.
MainGatherDoneAllOk ==
    /\ mainpc = "gather"
    /\ \A p \in Pages : fpc[p] = "done" /\ page_ret[p] # "None"
    /\ mainpc' = "done"
    /\ UNCHANGED <<orders, dbLock, otherVars, fetchVars, journal>>

\* main(): asyncio.gather(*tasks) returns; the totals are printed.
MainGatherDone ==
    /\ mainpc = "gather"
    /\ \A p \in Pages : fpc[p] = "done"
    /\ mainpc' = "done"
    /\ UNCHANGED <<orders, dbLock, otherVars, fetchVars, journal>>

NextFetch ==
    \/ \E p \in Pages :
          \/ AcquireSemaphore(p)
          \/ PostRecords(p)
          \/ PostEmpty(p)
          \/ PostCurlError(p)
          \/ RetrySleepDone(p)
          \/ PostFatalError(p)
          \/ InsertExecuteMany(p)
          \/ InsertCommit(p)
          \/ PoliteSleepDone(p)
    \/ MainStop
    \/ MainCreateTasks
    \/ MainGatherDone

SpecFetch == InitFetch /\ [][NextFetch]_vars

\* The event loop runs a task that is ready, every request ends within its
\* 40 s timeout and every sleep ends: a step that stays possible is taken.
SpecFetchLive == SpecFetch /\ WF_vars(NextFetch)

\* C7 (as claimed): when the concurrent fetch phase is over, the store holds
\* exactly the dedup keys it held before and the distinct dedup keys of the
\* records the pages delivered, each key on one row only.
C7_DistinctKeysStoredOnce ==
    mainpc = "done" /\ db = "database_async" /\ fpc[1] = "done"
    => /\ StoredKeys(orders, db)
             = StoredKeys(orders0, db) \cup {DedupKey(o, db) : o \in seenDicts}
       /\ \A i, j \in 1..Len(orders) :
             DedupKey(orders[i], db) = DedupKey(orders[j], db) => i = j

\* The fetch_page calls that are inside `async with SEMAPHORE`.
InSection ==
    {p \in Pages : fpc[p] \in {"post", "retry_sleep", "execute", "commit", "sleep"}}

\* C12: at most CONCURRENT_REQUESTS fetch_page calls are inside the guarded
\* section, every call outside it has given its permit back, and once every
\* page task has finished all permits are free again.
C12_SemaphoreBound ==
    mainpc \in {"page1", "gather", "stopped", "done"}
    => /\ Cardinality(InSection) <= CONCURRENT_REQUESTS
       /\ permits = CONCURRENT_REQUESTS - Cardinality(InSection)
       /\ (\A p \in Pages : fpc[p] \in {"idle", "done"}) => permits = CONCURRENT_REQUESTS

\* C12 witness: a page has left the section by failing (it returned None) and
\* the section is full again, so the permit the failed call gave back was taken
\* by a later call.
C12_Witness ==
    /\ Cardinality(InSection) = CONCURRENT_REQUESTS
    /\ \E q \in Pages : q >= 2 /\ fpc[q] = "done" /\ page_ret[q] = "None"

\* C13: a page is attempted at most RETRY_COUNT times; a CurlError with
\* attempts left leads to the retry sleep and from there to the next attempt,
\* the RETRY_COUNT-th CurlError and any other exception make the call return
\* None, and a call that has returned makes no further attempt.
C13_RetryPolicy ==
    [][\A p \in Pages :
          /\ attempt'[p] <= RETRY_COUNT - 1
          /\ (fpc[p] = "post" /\ caught'[p] = "CurlError")
                => IF attempt[p] < RETRY_COUNT - 1
                   THEN fpc'[p] = "retry_sleep" /\ page_ret'[p] = "unset"
                   ELSE fpc'[p] = "done" /\ page_ret'[p] = "None"
          /\ (fpc[p] = "retry_sleep" /\ fpc'[p] # "retry_sleep")
                => fpc'[p] = "post" /\ attempt'[p] = attempt[p] + 1
          /\ (fpc[p] = "post" /\ caught'[p] = "Exception")
                => fpc'[p] = "done" /\ page_ret'[p] = "None"
          /\ fpc[p] = "done" => fpc'[p] = "done"]_vars

\* C13 witness: one page has returned None after its last CurlError and
\* another after an exception of a different class.
C13_Witness ==
    /\ \E p \in Pages : fpc[p] = "done" /\ page_ret[p] = "None" /\ caught[p] = "CurlError"
    /\ \E q \in Pages : fpc[q] = "done" /\ page_ret[q] = "None" /\ caught[q] = "Exception"

\* C14 (as claimed): once a fetch_page call has returned an empty list, no
\* request for a later page is issued (no call for a later page enters an
\* attempt).
C14_NoRequestAfterEmptyPage ==
    [][\A q \in Pages :
          (fpc[q] # "post" /\ fpc'[q] = "post")
             => ~\E p \in Pages : p < q /\ page_ret[p] = "empty"]_vars

\* ------------------------------------- SpecCollect: collector.py, run()
\* Most load-more clicks asked for (clicks_to_perform).
MaxClicks == 2

\* _parse_response: one dictionary per entry of listRespDTOList.
ParseResponse(list) ==
    [k \in 1..Len(list) |-> ToDict(OrderDataOf(list[k]))]

\* What the order-list request can answer with; <<>> also stands for a body
\* that _parse_response cannot read (it then returns []).
Responses == RecordLists \cup {<<>>}

\* run(clicks_to_perform) has initialized the store, logged in and opened the
\* order list; it is about to click the "all" tab.
InitCollect ==
    /\ db = "database"
    /\ orders \in StoredBefore
    /\ dbLock = "UNLOCKED"
    /\ journal = <<>>
    /\ last = NoCall
    /\ nworkers = 0
    /\ pc = [w \in Workers |-> "off"]
    /\ task = [w \in Workers |-> 0]
    /\ claimCount = [k \in 1..MaxTasks |-> 0]
    /\ orders0 = orders
    /\ mainpc = "initial"
    /\ driver_pool = <<>>
    /\ held = [w \in Workers |-> NoDriver]
    /\ retries = [w \in Workers |-> 0]
    /\ results_queue = <<>>
    /\ wpc = "off"
    /\ wresult = NoResult
    /\ NoPages
    /\ clicks_to_perform \in 0..MaxClicks
    /\ loop_i = 0
    /\ clicks = 0
    /\ next_page_orders = Unbound

pageVars == <<fpc, attempt, permits, page_batch, page_ret, response_list, caught,
              first_order_id, first_page_orders>>
restVars == <<db, dbLock, journal, last, workerVars0, shotVars, pageVars, response_json,
              active_parsers, raw_body>>

\* run: database.insert_orders(batch) and the two running totals.
StoreBatch(batch) ==
    LET r == InsertOrdersResult(orders, batch, db)
    IN  /\ orders' = r.rows
        /\ total_inserted' = total_inserted + r.inserted_count
        /\ total_discovered' = total_discovered + Len(batch)
        /\ seenDicts' = seenDicts \cup {batch[k] : k \in 1..Len(batch)}

\* run: the "all" tab is clicked and the first response parsed; its records,
\* if any, are stored.  The loop starts in either case.
InitialPage ==
    /\ mainpc = "initial"
    /\ \E list \in Responses :
          LET initial_orders == ParseResponse(list)
          IN  IF initial_orders # <<>>
              THEN StoreBatch(initial_orders)
              ELSE UNCHANGED <<orders, total_inserted, total_discovered, seenDicts>>
    /\ mainpc' = "loop"
    /\ UNCHANGED <<restVars, collectVars>>

\* run: for i in range(clicks_to_perform) is exhausted.
LoopExhausted ==
    /\ mainpc = "loop"
    /\ loop_i >= clicks_to_perform
    /\ mainpc' = "done"
    /\ UNCHANGED <<orders, restVars, collectVars, total_inserted, total_discovered, seenDicts>>

\* run: the load-more button is found and clicked.
Click ==
    /\ mainpc = "loop"
    /\ loop_i < clicks_to_perform
    /\ clicks' = clicks + 1
    /\ mainpc' = "clicked"
    /\ UNCHANGED <<orders, restVars, clicks_to_perform, loop_i, next_page_orders,
                   total_inserted, total_discovered, seenDicts>>

\* A load-more page without records that lets the loop go on.
NextPageEmptyContinue ==
    /\ mainpc = "clicked"
    /\ next_page_orders' = <<>>
    /\ loop_i' = loop_i + 1
    /\ mainpc' = "loop"
    /\ UNCHANGED <<orders, restVars, clicks_to_perform, clicks,
                   total_inserted, total_discovered, seenDicts>>

\* run: the load-more page parses to records: store them, next iteration.
NextPageRecords ==
    /\ mainpc = "clicked"
    /\ \E list \in RecordLists :
          /\ next_page_orders' = ParseResponse(list)
          /\ StoreBatch(ParseResponse(list))
    /\ loop_i' = loop_i + 1
    /\ mainpc' = "loop"
    /\ UNCHANGED <<restVars, clicks_to_perform, clicks>>

\* run: the load-more page parses to no record: break, then the finally
\* clause prints the totals.
NextPageEmpty ==
    /\ mainpc = "clicked"
    /\ next_page_orders' = <<>>
    /\ mainpc' = "done"
    /\ UNCHANGED <<orders, restVars, clicks_to_perform, loop_i, clicks,
                   total_inserted, total_discovered, seenDicts>>

\* run: except TimeoutException (no clickable button within 45 s, or no
\* request within 30 s after the click): break.
LoadMoreTimeout ==
    /\ \/ mainpc = "loop" /\ loop_i < clicks_to_perform
       \/ mainpc = "clicked"
    /\ mainpc' = "done"
    /\ UNCHANGED <<orders, restVars, collectVars, total_inserted, total_discovered, seenDicts>>

\* run: except Exception (anything else the browser raises, or a timeout
\* before the loop): the message is printed, then the totals.
RunError ==
    /\ \/ mainpc = "initial"
       \/ mainpc = "loop" /\ loop_i < clicks_to_perform
       \/ mainpc = "clicked"
    /\ mainpc' = "done"
    /\ UNCHANGED <<orders, restVars, collectVars, total_inserted, total_discovered, seenDicts>>

NextCollect ==
    \/ InitialPage
    \/ LoopExhausted
    \/ Click
    \/ NextPageRecords
    \/ NextPageEmpty
    \/ LoadMoreTimeout
    \/ RunError

SpecCollect == InitCollect /\ [][NextCollect]_vars

\* C15: in WeidianCollector.run a load-more page that parses to no record
\* ends the run normally; afterwards no click is performed and the table is
\* not changed, everything stored from earlier pages is still in the table,
\* and at most clicks_to_perform clicks are ever performed.
C15_EmptyPageStopsClickLoop ==
    /\ [](/\ clicks <= clicks_to_perform
          /\ next_page_orders = <<>> => mainpc = "done"
          /\ \A o \in seenDicts : o.order_id # NULL
                => DedupKey(o, db) \in StoredKeys(orders, db))
    /\ [][next_page_orders = <<>> => UNCHANGED <<clicks, orders, mainpc>>]_vars

\* C15 witness: a load-more page was empty after an earlier page had been
\* stored, with clicks still left.
C15_Witness ==
    /\ next_page_orders = <<>>
    /\ seenDicts # {}
    /\ Len(orders) > Len(orders0)
    /\ clicks >= 1
    /\ clicks < clicks_to_perform

C17_FirstPageFailureStops ==
    /\ []((fpc[1] = "done" /\ page_ret[1] \in {"None", "empty"})
             => /\ mainpc \in {"page1", "stopped"}
                /\ \A p \in Pages : p >= 2 => fpc[p] = "idle" /\ page_ret[p] = "unset"
                /\ Len(orders) >= Len(orders0)
                /\ \A k \in 1..Len(orders0) : orders[k] = orders0[k])
    /\ [][mainpc = "stopped" => mainpc' = "stopped"]_vars

\* C17 witness: main() has stopped after page 1 ran out of retries, with a
\* row of an earlier run in the store.
C17_Witness ==
    /\ mainpc = "stopped"
    /\ page_ret[1] = "None" /\ caught[1] = "CurlError"
    /\ Len(orders0) >= 1

\* C18: the step in which a page task fails (returns None) changes no other
\* page's call; a page returns its records only after insert_orders has put
\* every one of their keys into the table, and no row is changed or lost
\* afterwards; and the gather phase always ends with main() reporting its
\* totals.
C18_PartialFailureTolerated ==
    /\ [][\A p, q \in Pages :
             (p # q /\ page_ret[p] # "None" /\ page_ret'[p] = "None")
                => fpc'[q] = fpc[q] /\ page_ret'[q] = page_ret[q]]_vars
    /\ [][\A p \in Pages :
             /\ (fpc[p] = "commit" /\ fpc'[p] = "sleep")
                   => \A k \in 1..Len(page_batch[p]) :
                         DedupKey(page_batch[p][k], db) \in StoredKeys(orders', db)
             /\ (page_ret[p] # "records" /\ page_ret'[p] = "records")
                   => fpc[p] = "sleep"]_vars
    /\ [][/\ Len(orders') >= Len(orders)
          /\ \A k \in 1..Len(orders) : orders'[k] = orders[k]]_vars
    /\ (mainpc = "gather") ~> (mainpc = "done")

\* C18 witness: main() has finished although one page task failed, and
\* another page task returned records.
C18_Witness ==
    /\ mainpc = "done"
    /\ \E p \in Pages : p >= 2 /\ page_ret[p] = "None"
    /\ \E q \in Pages : q >= 2 /\ page_ret[q] = "records"
    /\ Len(orders) > Len(orders0)

\* C19: a worker starts an attempt on its task only while fewer than
\* MAX_RETRIES attempts have failed; a wait for a pooled driver that times out
\* counts as a failed attempt; after the MAX_RETRIES-th failure the worker
\* queues a failed result for its task and calls fetch_pending_task again; a
\* worker leaves its loop only out of fetch_pending_task.
C19_RetryCeiling ==
    /\ [](\A w \in Workers :
             /\ retries[w] <= MAX_RETRIES
             /\ pc[w] \in {"get_driver", "shoot"} => retries[w] < MAX_RETRIES
             /\ pc[w] = "put_failed" => retries[w] = MAX_RETRIES)
    /\ [][\A w \in Workers :
             /\ (pc[w] = "get_driver" /\ <<pc[w], retries[w]>> # <<pc'[w], retries'[w]>>)
                   => \/ pc'[w] = "shoot" /\ retries'[w] = retries[w]
                      \/ /\ retries'[w] = retries[w] + 1
                         /\ held'[w] = NoDriver
                         /\ pc'[w] = IF retries'[w] < MAX_RETRIES
                                     THEN "get_driver" ELSE "put_failed"
             /\ (pc[w] = "put_failed" /\ pc'[w] # "put_failed")
                   => /\ pc'[w] = "fetch"
                      /\ results_queue' = Append(results_queue, FailedResult(task[w]))
             /\ (pc[w] # "exit" /\ pc'[w] = "exit") => pc[w] = "commit"]_vars

\* C19 witness: one worker has failed MAX_RETRIES times on the first task, has
\* queued the failed result, has claimed the second task and waits for a
\* driver at the empty pool; the other worker has claimed nothing.
C19_Witness ==
    \E w, v \in Workers :
       /\ w # v
       /\ pc[v] = "fetch" /\ task[v] = 0
       /\ pc[w] = "get_driver" /\ task[w] = 2
       /\ driver_pool = <<>>
       /\ \/ \E k \in 1..Len(results_queue) : results_queue[k] = FailedResult(1)
          \/ orders[1].status = "failed"

\* --------------- SpecShotAsyncErr: screenshotter_async.py, the store may fail
\* update_task_status_from_queue raises while the completed status is being
\* written (connect, UPDATE or commit; the async with closes the connection).
\* The worker's except branch builds the failed result and writes that.
CompletedWriteRaises(w) ==
    /\ pc[w] \in {"u_completed", "c_completed"}
    /\ dbLock' = IF pc[w] = "c_completed" THEN "UNLOCKED" ELSE dbLock
    /\ pc' = [pc EXCEPT ![w] = "u_failed"]
    /\ UNCHANGED <<db, orders, journal, last, nworkers, task, claimCount, orders0, mainpc,
                   shotVars, fetchVars, collectVars>>

\* update_task_status_from_queue raises while the failed status is being
\* written: the call stands in the except branch, so after the finally has
\* closed the context the exception leaves screenshot_worker.
FailedWriteRaises(w) ==
    /\ pc[w] \in {"u_failed", "c_failed"}
    /\ dbLock' = IF pc[w] = "c_failed" THEN "UNLOCKED" ELSE dbLock
    /\ pc' = [pc EXCEPT ![w] = "raised"]
    /\ UNCHANGED <<db, orders, journal, last, nworkers, task, claimCount, orders0, mainpc,
                   shotVars, fetchVars, collectVars>>

\* main(): asyncio.gather re-raises the exception of a worker; main() ends
\* with it and asyncio.run cancels the workers still running, whose open
\* transactions are dropped with their connections.
GatherRaises ==
    /\ mainpc = "gather"
    /\ \E w \in 1..nworkers : pc[w] = "raised"
    /\ mainpc' = "raised"
    /\ pc' = [w \in Workers |-> IF pc[w] \in {"exit", "raised"} THEN pc[w] ELSE "cancelled"]
    /\ orders' = RolledBack(orders)
    /\ journal' = <<>>
    /\ dbLock' = "UNLOCKED"
    /\ UNCHANGED <<db, last, nworkers, task, claimCount, orders0, shotVars, fetchVars, collectVars>>

NextShotAsyncErr ==
    \/ \E w \in Workers :
          \/ SelectAsync(w, "exit")
          \/ UpdateAsync(w)
          \/ CommitAsync(w, "work")
          \/ ScreenshotAsync(w)
          \/ UpdateStatusAsync(w)
          \/ CommitStatusAsync(w)
          \/ AsyncErrorReturnsNone(w, "exit")
          \/ CommitAsyncFails(w, "exit")
          \/ CompletedWriteRaises(w)
          \/ FailedWriteRaises(w)
    \/ GatherReturns
    \/ GatherRaises

SpecShotAsyncErr == InitShotAsync /\ [][NextShotAsyncErr]_vars

\* A task whose screenshot or whose write of the completed status failed is
\* marked failed when the worker goes back to claiming.
FailureMarkedFailed ==
    [][\A w \in Workers :
          (pc[w] = "c_failed" /\ pc'[w] = "fetch") => orders'[task[w]].status = "failed"]_vars

\* C20 (as claimed): no failure met while a task is processed ends the worker
\* coroutine: an exception never leaves screenshot_worker.
C20_WorkerSurvivesTaskFailure ==
    \A w \in Workers : pc[w] # "raised"

\* The driver instances of the pool entries.
Pooled == {driver_pool[k].driver : k \in 1..Len(driver_pool)}

\* C21: every entry of driver_pool, and every entry a worker is taking a
\* screenshot with, has use_count < DRIVER_MAX_USE_COUNT; a worker that ends
\* an attempt holding an entry whose count has reached the threshold (by
\* successes or by a fatal-looking error) gives the instance up without
\* putting it into the pool.
C21_ExhaustedDriverRetired ==
    /\ [](/\ \A k \in 1..Len(driver_pool) :
                driver_pool[k].use_count < DRIVER_MAX_USE_COUNT
          /\ \A w \in Workers :
                pc[w] = "shoot" => held[w].use_count < DRIVER_MAX_USE_COUNT)
    /\ [][\A w \in Workers :
             (/\ pc[w] \in {"release_ok", "release_err"}
              /\ held[w].use_count >= DRIVER_MAX_USE_COUNT
              /\ pc'[w] # pc[w])
                => /\ held'[w] = NoDriver
                   /\ held[w].driver \notin {driver_pool'[k].driver :
                                               k \in 1..Len(driver_pool')}]_vars

\* C21 witness: DRIVER_MAX_USE_COUNT screenshots have succeeded, every
\* instance that took one has been retired, and the pool holds one instance
\* that has not been used yet.
C21_Witness ==
    /\ db = "database" /\ mainpc = "join_workers"
    /\ driver_pool = <<[driver |-> 2, use_count |-> 0]>>
    /\ \A w \in Workers : held[w] = NoDriver
    /\ Cardinality({k \in 1..Len(orders) : orders[k].status = "completed"})
          >= DRIVER_MAX_USE_COUNT

\* The live driver instances: the pooled ones and those held by workers.
Live == Len(driver_pool) + Cardinality({w \in Workers : held[w] # NoDriver})

\* C22 (as claimed): until main() empties the pool at shutdown, no step of a
\* worker changes the number of live driver instances: an instance taken from
\* the pool is put back or replaced by a new one.
C22_PoolSizeConserved ==
    [][mainpc' # "done" => Live' = Live]_vars

\* C23: exclusive ownership of a driver instance: two workers never hold the
\* same instance, an instance a worker holds is not in the pool where another
\* worker could get it, and the pool never lists an instance twice.
C23_ExclusiveOwnership ==
    /\ \A w \in Workers, v \in Workers :
          (w # v /\ held[w] # NoDriver) => held[w].driver # held[v].driver
    /\ \A w \in Workers : held[w] # NoDriver => held[w].driver \notin Pooled
    /\ \A j \in 1..Len(driver_pool), k \in 1..Len(driver_pool) :
          j # k => driver_pool[j].driver # driver_pool[k].driver

\* C23 witness: two workers are taking screenshots at the same time, each
\* with an instance of its own, and the pool is empty.
C23_Witness ==
    /\ db = "database"
    /\ \A w \in Workers : pc[w] = "shoot" /\ held[w] # NoDriver
    /\ driver_pool = <<>>

\* The results that workers have put and database_writer has not taken.
Buffered == {k \in 1..Len(results_queue) : results_queue[k] # Sentinel}

\* C24 (as claimed): when screenshotter.main has reported completion, no
\* result of a worker is left on results_queue: the writer has taken and
\* applied every one of them.
C24_ShutdownFlush ==
    (db = "database" /\ mainpc = "done") => Buffered = {}

\* C25 (as claimed): in every store state a record with a screenshot path
\* has status completed.
C25_PathOnlyOnCompleted ==
    \A i \in 1..Len(orders) :
        orders[i].screenshot_path # NULL => orders[i].status = "completed"

\* C26 (as claimed): every status update that is applied to the store names
\* the record its worker claimed, and that record is running at that moment,
\* in the async pipeline (the worker's own commit) and in the threaded one
\* (the writer's commit of a queued result).
C26_OnlyRunningUpdated ==
    [][/\ \A w \in Workers :
             (pc[w] \in {"c_completed", "c_failed"} /\ pc'[w] # pc[w])
                => /\ task[w] \in 1..Len(orders)
                   /\ orders[task[w]].status = "running"
       /\ (wpc = "commit" /\ wpc' # wpc)
             => /\ wresult.task_id \in 1..Len(orders)
                /\ orders[wresult.task_id].status = "running"]_vars

C28_DelayBeforeRelease ==
    [][\A p \in Pages :
          (/\ fpc[p] # "done" /\ fpc'[p] = "done"
           /\ page_ret'[p] \in {"empty", "records"})
             => fpc[p] = "sleep"]_vars

\* ------------------- SpecParse: parse_and_prepare_orders on one response
\* Entries of a sub_orders list.
SubOrders == [item_title : {ABSENT, "t1"}, sub_order_desc : {ABSENT, NULL, ""}]

\* The member sub_orders of an entry of listRespDTOList.
SubOrdersMembers ==
    {Member("absent", <<>>), Member("null", <<>>), Member("list", <<>>)}
    \cup {Member("list", <<s>>) : s \in SubOrders}

\* Entries of listRespDTOList: order_id is there, every other member may be
\* missing (modified_total_price is left out throughout).
RawOrderDicts ==
    [order_id : {OrderNames[1]}, shop_name : {ABSENT, "s1"},
     total_price : {ABSENT, NULL, "9.9"}, sub_orders : SubOrdersMembers]

\* The bodies a response may parse to.
Payloads ==
    {Result("absent", FALSE, Member("absent", <<>>)),
     Result("null", FALSE, Member("absent", <<>>))}
    \cup {Result("object", other, list) :
             other \in BOOLEAN,
             list \in {Member("absent", <<>>), Member("null", <<>>), Member("list", <<>>)}
                      \cup {Member("list", <<d>>) : d \in RawOrderDicts}}

\* dict.get(key) and dict.get(key, default) on a member's value.
Get(value) == IF value = ABSENT THEN NULL ELSE value
GetOr(value, default) == IF value = ABSENT THEN default ELSE value

\* str(x) of a string or of None.
Str(value) == IF value = NULL THEN "None" ELSE value

\* What a call gives: a value, or an exception that leaves the function.
Returned(value) == [raised |-> FALSE, value |-> value]
Raised == [raised |-> TRUE, value |-> <<>>]

\* order_dict.get("sub_orders", [{}])[0]: the default serves an absent member
\* only; None[0] raises TypeError and [][0] raises IndexError.
FirstSubOrder(order_dict) ==
    LET m == order_dict.sub_orders
    IN  IF m.kind = "absent"
        THEN Returned([item_title |-> ABSENT, sub_order_desc |-> ABSENT])
        ELSE IF m.kind = "null" \/ m.items = <<>>
        THEN Raised
        ELSE Returned(m.items[1])

\* OrderData(...) for one entry whose first sub order is sub_order.
OrderDataOfDict(order_dict, sub_order) ==
    [order_id |-> Get(order_dict.order_id),
     shop_name |-> Get(order_dict.shop_name),
     item_title |-> Get(sub_order.item_title),
     sub_order_desc |-> GetOr(sub_order.sub_order_desc, ""),
     total_price |-> Str(GetOr(order_dict.total_price, "0.0"))]

\* `if result_data and "listRespDTOList" in result_data`: None and the empty
\* object are falsy.
HasList(result_data) ==
    /\ result_data.kind = "object"
    /\ result_data.other \/ result_data.listRespDTOList.kind # "absent"
    /\ result_data.listRespDTOList.kind # "absent"

\* The for loop of parse_and_prepare_orders over order_dict_list.
ParseEntries(order_dict_list) ==
    IF \E k \in 1..Len(order_dict_list) : FirstSubOrder(order_dict_list[k]).raised
    THEN Raised
    ELSE Returned([k \in 1..Len(order_dict_list) |->
                      ToDict(OrderDataOfDict(order_dict_list[k],
                                             FirstSubOrder(order_dict_list[k]).value))])

\* A parser without the `is None` test: iterating None raises TypeError.
ParsePayloadNoNullTest(payload) ==
    LET result_data == payload.result
    IN  IF ~HasList(result_data) THEN Returned(<<>>)
        ELSE IF result_data.listRespDTOList.kind = "null" THEN Raised
        ELSE ParseEntries(result_data.listRespDTOList.items)

\* parse_and_prepare_orders(response_json)
ParsePayload(payload) ==
    LET result_data == payload.result
    IN  IF ~HasList(result_data) THEN Returned(<<>>)
        ELSE IF result_data.listRespDTOList.kind = "null" THEN Returned(<<>>)
        ELSE ParseEntries(result_data.listRespDTOList.items)

\* main() awaits fetch_page(session, page_no=1); no response is in hand yet.
InitParse ==
    /\ db = "database_async"
    /\ orders \in StoredBefore
    /\ dbLock = "UNLOCKED"
    /\ journal = <<>>
    /\ last = NoCall
    /\ nworkers = 0
    /\ pc = [w \in Workers |-> "off"]
    /\ task = [w \in Workers |-> 0]
    /\ claimCount = [i \in 1..MaxTasks |-> 0]
    /\ orders0 = orders
    /\ mainpc = "page1"
    /\ driver_pool = <<>>
    /\ held = [w \in Workers |-> NoDriver]
    /\ retries = [w \in Workers |-> 0]
    /\ results_queue = <<>>
    /\ wpc = "off"
    /\ wresult = NoResult
    /\ fpc = [p \in Pages |-> IF p = 1 THEN "wait_sem" ELSE "idle"]
    /\ attempt = [p \in Pages |-> 0]
    /\ permits = CONCURRENT_REQUESTS
    /\ page_batch = [p \in Pages |-> <<>>]
    /\ page_ret = [p \in Pages |-> "unset"]
    /\ response_list = [p \in Pages |-> <<>>]
    /\ caught = [p \in Pages |-> "none"]
    /\ first_order_id = [p \in Pages |-> NULL]
    /\ first_page_orders = <<>>
    /\ total_discovered = 0
    /\ total_inserted = 0
    /\ seenDicts = {}
    /\ response_json = NoPayload
    /\ active_parsers = {}
    /\ raw_body = [p \in Pages |-> NoBody]
    /\ NoCollect

\* fetch_page: session.post returned, raise_for_status passed and
\* response.json() gave the body.
ReceiveResponse ==
    /\ fpc[1] = "post"
    /\ response_json = NoPayload
    /\ response_json' \in Payloads
    /\ UNCHANGED <<active_parsers, raw_body, storeVars, last, workerVars, shotVars, collectVars, fpc, attempt,
                   permits, page_batch, page_ret, response_list, caught, callVars,
                   total_discovered, total_inserted, seenDicts>>

parsedVars == <<orders, dbLock, journal, mainpc, otherVars, callVars,
                total_discovered, total_inserted, seenDicts>>

\* fetch_page: orders_to_insert is empty: return []
ParseReturnsEmpty ==
    /\ fpc[1] = "post"
    /\ response_json # NoPayload
    /\ ParsePayload(response_json) = Returned(<<>>)
    /\ Return(1, "empty")
    /\ UNCHANGED <<parsedVars, caught>>

\* fetch_page: orders_to_insert holds records: on to insert_orders.
ParseReturnsRecords ==
    /\ fpc[1] = "post"
    /\ response_json # NoPayload
    /\ LET parsed == ParsePayload(response_json)
       IN  /\ ~parsed.raised
           /\ parsed.value # <<>>
           /\ page_batch' = [page_batch EXCEPT ![1] = parsed.value]
    /\ response_list' = [response_list EXCEPT ![1] = response_json.result.listRespDTOList.items]
    /\ fpc' = [fpc EXCEPT ![1] = "execute"]
    /\ UNCHANGED <<parsedVars, caught, attempt, permits, page_ret>>

\* fetch_page: the parser raised; except Exception returns None.
ParseRaises ==
    /\ fpc[1] = "post"
    /\ response_json # NoPayload
    /\ ParsePayload(response_json).raised
    /\ caught' = [caught EXCEPT ![1] = "Exception"]
    /\ Return(1, "None")
    /\ UNCHANGED parsedVars

NextParse ==
    \/ AcquireSemaphore(1)
    \/ ReceiveResponse
    \/ ParseReturnsEmpty
    \/ ParseReturnsRecords
    \/ ParseRaises
    \/ InsertExecuteMany(1)
    \/ InsertCommit(1)
    \/ PoliteSleepDone(1)

SpecParse == InitParse /\ [][NextParse]_vars

\* C29: for a payload with no result, a null result, a result without
\* listRespDTOList or a null listRespDTOList, parse_and_prepare_orders
\* returns the empty list without raising, and the call of fetch_page that
\* received it returns the empty list, not None.
C29_NullNormalized ==
    LET result_data == response_json.result
        NullShaped ==
            \/ result_data.kind \in {"absent", "null"}
            \/ /\ result_data.kind = "object"
               /\ result_data.listRespDTOList.kind \in {"absent", "null"}
    IN  (response_json # NoPayload /\ NullShaped)
           => /\ ParsePayload(response_json) = Returned(<<>>)
              /\ fpc[1] = "done" => (page_ret[1] = "empty" /\ caught[1] = "none")

\* C29 witness: fetch_page has returned the empty list for a response whose
\* listRespDTOList is null.
C29_Witness ==
    /\ response_json = Result("object", TRUE, Member("null", <<>>))
    /\ fpc[1] = "done"
    /\ page_ret[1] = "empty"

\* C30 (as claimed): for a response whose entries all have an order_id,
\* whichever of the other members are missing, the parser raises nothing and
\* gives one dictionary per entry with the entry's order_id and null for the
\* missing fields, and the page does not fail.
C30_MissingFieldsTolerated ==
    LET member == response_json.result.listRespDTOList
        NoSubOrder(order_dict) ==
            order_dict.sub_orders.kind # "list" \/ order_dict.sub_orders.items = <<>>
    IN
    (/\ response_json # NoPayload /\ HasList(response_json.result)
     /\ member.kind = "list" /\ member.items # <<>>)
       => LET parsed == ParsePayload(response_json)
              list == member.items
          IN  /\ ~parsed.raised
              /\ Len(parsed.value) = Len(list)
              /\ \A k \in 1..Len(list) :
                    /\ parsed.value[k].order_id = list[k].order_id
                    /\ list[k].shop_name = ABSENT => parsed.value[k].shop_name = NULL
                    /\ NoSubOrder(list[k]) => parsed.value[k].item_title = NULL
              /\ fpc[1] = "done" => page_ret[1] = "records"

\* C35: driver_pool never holds more than MAX_DRIVERS_IN_POOL entries, and
\* whenever a worker is about to put an entry (its own or a regenerated one)
\* the bounded queue has a free slot, so the put does not block.
C35_PoolCapacityBound ==
    /\ Len(driver_pool) <= MAX_DRIVERS_IN_POOL
    /\ \A w \in Workers :
          pc[w] \in {"release_ok", "release_err"} => Len(driver_pool) < MAX_DRIVERS_IN_POOL

\* C35 witness: the pool is full again and one of its entries is an instance
\* created by a regeneration.
C35_Witness ==
    /\ db = "database" /\ mainpc = "join_workers"
    /\ Len(driver_pool) = MAX_DRIVERS_IN_POOL
    /\ (MAX_DRIVERS_IN_POOL + 1) \in Pooled

\* The results produced so far for record i: those on results_queue, the one
\* in the writer's hands and the one already applied to the record.
Produced(i) ==
    Cardinality({k \in 1..Len(results_queue) : results_queue[k].task_id = i})
    + (IF wpc \in {"update", "commit"} /\ wresult.task_id = i THEN 1 ELSE 0)
    + (IF orders[i].status \in Terminal THEN 1 ELSE 0)

\* C34: in the threaded pool every claimed record has exactly one result,
\* completed with a path or failed, once its worker is through with it, and
\* none while the worker is still at its attempts.
C34_OneResultPerTask ==
    db = "database" =>
       \A i \in 1..Len(orders) :
          LET working == \E w \in Workers :
                            /\ task[w] = i
                            /\ pc[w] \in {"get_driver", "shoot", "release_err", "put_failed"}
          IN  /\ claimCount[i] = 0 => Produced(i) = 0
              /\ claimCount[i] > 0 => Produced(i) = (IF working THEN 0 ELSE 1)
              /\ \A k \in 1..Len(results_queue) :
                    results_queue[k].task_id = i
                       => (results_queue[k].status = "completed")
                             = (results_queue[k].screenshot_path # NULL)

\* C34 witness: one record got its failed result after MAX_RETRIES failed
\* attempts and another its completed result, and both were applied.
C34_Witness ==
    /\ db = "database" /\ mainpc = "done"
    /\ \E i, j \in 1..Len(orders) :
          orders[i].status = "failed" /\ orders[j].status = "completed"

\* The threads run: a thread that can take a step eventually takes one, and
\* every screenshot attempt and every bounded wait returns or times out.
SpecShotLive == SpecShot /\ WF_vars(NextShot)

\* C32: every run of the threaded screenshot phase ends: all workers exit,
\* the writer exits and main() reports completion (or gives up at once on an
\* empty pool), whatever instances the pool has lost on the way.
C32_ScreenshotPhaseTerminates ==
    <>(/\ mainpc \in {"done", "aborted"}
       /\ mainpc = "done" => (wpc = "done" /\ \A w \in Workers : pc[w] = "exit"))

\* C32 witness: the pool has lost every instance, records were claimed and
\* given up as failed, and all workers have exited.
C32_Witness ==
    /\ db = "database" /\ mainpc = "join_writer"
    /\ driver_pool = <<>>
    /\ \A w \in Workers : pc[w] = "exit"
    /\ \E k \in 1..Len(results_queue) : results_queue[k].status = "failed"

\* C33 (as claimed): a screenshot worker leaves its loop only when the store
\* holds no pending record, also when fetch_pending_task met a storage error.
C33_ExitOnlyWhenDrained ==
    [][\A w \in Workers :
          (pc[w] # "exit" /\ pc'[w] = "exit") => PendingIds(orders) = {}]_vars

\* C38 (as claimed): in the async store no two rows share their
\* (order_id, sub_order_desc) pair, a null sub_order_desc included.
C38_CompositeKeyUnique ==
    db = "database_async" =>
       \A i, j \in 1..Len(orders) :
          (/\ orders[i].order_id = orders[j].order_id
           /\ orders[i].sub_order_desc = orders[j].sub_order_desc) => i = j

Texts ==
    {[json |-> "invalid", list |-> <<>>], [json |-> "null_result", list |-> <<>>]}
    \cup {[json |-> "object", list |-> list] : list \in Responses}

\* Response bodies: the text as it is ("identity"), its gzip stream, a gzip
\* stream cut short, one with a damaged deflate stream and one with a wrong
\* CRC trailer; `header` is the Content-Encoding header sent with it.
Bodies ==
    [coding : {"identity", "gzip", "truncated", "corrupt", "bad_crc"},
     header : {"", "gzip"}, text : Texts]

\* A call that an exception of the given class leaves.
Raises(class) == [raised |-> TRUE, value |-> class]

\* gzip.decompress(raw_body): BadGzipFile for bytes without the gzip magic
\* and for a wrong CRC, EOFError for a stream that ends early, zlib.error
\* for a damaged deflate stream.
GzipDecompress(body) ==
    CASE body.coding = "gzip" -> Returned([body EXCEPT !.coding = "identity"])
      [] body.coding = "truncated" -> Raises("EOFError")
      [] body.coding = "corrupt" -> Raises("zlib.error")
      [] OTHER -> Raises("BadGzipFile")

\* json.loads(decompressed_body.decode('utf-8')): the bytes of a gzip stream
\* are not UTF-8 (the magic number has the byte 0x8b).
JsonLoads(bytes) ==
    IF bytes.coding # "identity" THEN Raises("UnicodeDecodeError")
    ELSE IF bytes.text.json = "invalid" THEN Raises("JSONDecodeError")
    ELSE Returned(bytes.text)

\* The loop over response_json["result"]["listRespDTOList"]; the test
\* `"listRespDTOList" in response_json["result"]` raises TypeError on null.
OrdersListOf(parsed) ==
    IF parsed.json = "null_result" THEN Raises("TypeError")
    ELSE Returned(ParseResponse(parsed.list))

\* _parse_response(request): decompression is decided by the header; the
\* except clause turns every exception into the return value [].
ParseResponseOfBody(body) ==
    LET decompressed == IF body.header = "gzip" THEN GzipDecompress(body)
                        ELSE Returned(body)
        parsed == IF decompressed.raised THEN decompressed
                  ELSE JsonLoads(decompressed.value)
        orders_list == IF parsed.raised THEN parsed ELSE OrdersListOf(parsed.value)
    IN  IF orders_list.raised THEN Returned(<<>>) ELSE orders_list

\* run is about to wait for the order-list request of a page.
InitDecode ==
    /\ db = "database"
    /\ orders = <<>>
    /\ dbLock = "UNLOCKED"
    /\ journal = <<>>
    /\ last = NoCall
    /\ NoWorkers
    /\ NoPool

\* run: wait_for_request returned the request; its response has a body.
RequestCaptured ==
    /\ mainpc = "none"
    /\ \E body \in Bodies : raw_body' = [raw_body EXCEPT ![1] = body]
    /\ mainpc' = "captured"
    /\ UNCHANGED <<storeVars, last, workerVars0, shotVars, collectVars, pageVars,
                   total_discovered, total_inserted, seenDicts, response_json,
                   active_parsers>>

\* run: next_page_orders = self._parse_response(request); `caught` keeps the
\* class of an exception that reaches run.
ParseResponseCall ==
    /\ mainpc = "captured"
    /\ LET r == ParseResponseOfBody(raw_body[1])
       IN  IF r.raised
           THEN /\ caught' = [caught EXCEPT ![1] = r.value]
                /\ UNCHANGED next_page_orders
           ELSE /\ next_page_orders' = r.value
                /\ UNCHANGED caught
    /\ mainpc' = "parsed"
    /\ UNCHANGED <<storeVars, last, workerVars0, shotVars, clicks_to_perform, loop_i,
                   clicks, fpc, attempt, permits, page_batch, page_ret, response_list,
                   callVars, total_discovered, total_inserted, seenDicts,
                   response_json, active_parsers, raw_body>>

NextDecode == RequestCaptured \/ ParseResponseCall

SpecDecode == InitDecode /\ [][NextDecode]_vars

\* C31 (as claimed), for _parse_response: the call returns normally; a body
\* that gzip cannot decompress is read as text, so its records are returned
\* when that text parses; after any other failure the call returns no record.
C31_DecodingNeverRaisesAndFallsBack ==
    mainpc = "parsed" =>
       LET body == raw_body[1]
           text == JsonLoads(body)
           records == IF text.raised THEN text ELSE OrdersListOf(text.value)
       IN  /\ caught[1] = "none"
           /\ (GzipDecompress(body).raised /\ ~records.raised)
                 => next_page_orders = records.value

\* ------- SpecCollectAsync: collector_async.py, run() and its parser tasks
\* Page 1 is requested by the navigation, page k + 1 by the k-th load-more
\* click; the parser task of a page is named by the page, and fpc, page_batch
\* and caught of the page are the task's position, orders_list and the
\* exception that ended it.

\* _parse_and_save_orders, from gzip.decompress to the end of the loop:
\* decompression is always attempted and only BadGzipFile falls back to
\* the raw body.
OrdersListOfBody(body) ==
    LET attempt_ == GzipDecompress(body)
        decompressed == IF attempt_.raised /\ attempt_.value = "BadGzipFile"
                        THEN Returned(body) ELSE attempt_
        parsed == IF decompressed.raised THEN decompressed
                  ELSE JsonLoads(decompressed.value)
    IN  IF parsed.raised THEN parsed ELSE OrdersListOf(parsed.value)

\* The bodies the order-list endpoint answers with here: one record as
\* plain text, as a gzip stream, and as a gzip stream cut short.
CapturedBodies ==
    {b \in Bodies :
        /\ b.coding \in {"identity", "gzip", "truncated"}
        /\ b.header = (IF b.coding = "identity" THEN "" ELSE "gzip")
        /\ b.text = [json |-> "object",
                     list |-> <<[order_id |-> OrderNames[1], sub_order_desc |-> "",
                                 item_title |-> "t1"]>>]}

\* main() has initialized the store; run(clicks_to_perform) has launched the
\* browser, registered _handle_response and awaits page.goto.
InitCollectAsync ==
    /\ db = "database_async"
    /\ orders \in StoredBefore
    /\ dbLock = "UNLOCKED"
    /\ journal = <<>>
    /\ last = NoCall
    /\ nworkers = 0
    /\ pc = [w \in Workers |-> "off"]
    /\ task = [w \in Workers |-> 0]
    /\ claimCount = [k \in 1..MaxTasks |-> 0]
    /\ orders0 = orders
    /\ mainpc = "goto"
    /\ driver_pool = <<>>
    /\ held = [w \in Workers |-> NoDriver]
    /\ retries = [w \in Workers |-> 0]
    /\ results_queue = <<>>
    /\ wpc = "off"
    /\ wresult = NoResult
    /\ NoPages
    /\ clicks_to_perform \in 0..MaxClicks
    /\ loop_i = 0
    /\ clicks = 0
    /\ next_page_orders = Unbound

runFrame == <<storeVars, last, workerVars0, shotVars, pageVars, total_discovered,
              total_inserted, seenDicts, response_json, next_page_orders, raw_body>>
taskFrame == <<db, dbLock, journal, last, workerVars, shotVars, collectVars, attempt,
               permits, page_ret, response_list, callVars, response_json>>

\* _handle_response: the response of a requested page arrives while the
\* browser is open; the parser is created with asyncio.create_task and has
\* not run yet.
HandleResponse(p) ==
    /\ mainpc \notin {"closed", "returned"}
    /\ fpc[p] = "idle"
    /\ p <= clicks + 1
    /\ \E body \in CapturedBodies : raw_body' = [raw_body EXCEPT ![p] = body]
    /\ fpc' = [fpc EXCEPT ![p] = "created"]
    /\ UNCHANGED <<taskFrame, orders, page_batch, caught, total_discovered,
                   total_inserted, seenDicts, active_parsers>>

\* _parse_and_save_orders, first step: the task adds itself to
\* active_parsers and awaits response.body().
ParserStart(p) ==
    /\ fpc[p] = "created"
    /\ mainpc # "returned"
    /\ active_parsers' = active_parsers \cup {p}
    /\ fpc' = [fpc EXCEPT ![p] = "body"]
    /\ UNCHANGED <<taskFrame, orders, page_batch, caught, total_discovered,
                   total_inserted, seenDicts, raw_body>>

\* The finally clause: self.active_parsers.remove(task); the task is done.
Finish(p) ==
    /\ active_parsers' = active_parsers \ {p}
    /\ fpc' = [fpc EXCEPT ![p] = "done"]

\* _parse_and_save_orders: response.body() answers (it raises once the
\* browser is closed) and the body is decoded; a non-empty orders_list goes
\* on to insert_orders, everything else ends the task.
ParserBody(p) ==
    /\ fpc[p] = "body"
    /\ LET r == IF mainpc = "closed" THEN Raises("TargetClosedError")
                ELSE OrdersListOfBody(raw_body[p])
       IN  IF r.raised
           THEN /\ caught' = [caught EXCEPT ![p] = r.value]
                /\ Finish(p)
                /\ UNCHANGED page_batch
           ELSE IF r.value = <<>>
           THEN /\ Finish(p)
                /\ UNCHANGED <<page_batch, caught>>
           ELSE /\ page_batch' = [page_batch EXCEPT ![p] = r.value]
                /\ fpc' = [fpc EXCEPT ![p] = "insert"]
                /\ UNCHANGED <<caught, active_parsers>>
    /\ UNCHANGED <<taskFrame, orders, total_discovered, total_inserted, seenDicts,
                   raw_body>>

\* _parse_and_save_orders: insert_orders returns, the totals are updated.
ParserInsert(p) ==
    /\ fpc[p] = "insert"
    /\ StoreBatch(page_batch[p])
    /\ Finish(p)
    /\ UNCHANGED <<taskFrame, page_batch, caught, raw_body>>

\* A handler without the finally clause on the storage-error path: the task
\* ends and stays in active_parsers.
ParserInsertFailsKeepsTask(p) ==
    /\ fpc[p] = "insert"
    /\ caught' = [caught EXCEPT ![p] = "aiosqlite.Error"]
    /\ fpc' = [fpc EXCEPT ![p] = "done"]
    /\ UNCHANGED <<taskFrame, orders, page_batch, total_discovered, total_inserted,
                   seenDicts, raw_body, active_parsers>>

\* _parse_and_save_orders: insert_orders raises (aiosqlite.Error); the
\* except clause prints it.
ParserInsertFails(p) ==
    /\ fpc[p] = "insert"
    /\ caught' = [caught EXCEPT ![p] = "aiosqlite.Error"]
    /\ Finish(p)
    /\ UNCHANGED <<taskFrame, orders, page_batch, total_discovered, total_inserted,
                   seenDicts, raw_body>>

\* run: page.goto returned.
Navigate ==
    /\ mainpc = "goto"
    /\ mainpc' = "ui_check"
    /\ UNCHANGED <<runFrame, collectVars, active_parsers>>

\* run: the order list container became visible.
UiVisible ==
    /\ mainpc = "ui_check"
    /\ mainpc' = "loop"
    /\ UNCHANGED <<runFrame, collectVars, active_parsers>>

\* run: the container did not show within 20 s: browser.close() and return.
UiCheckFails ==
    /\ mainpc = "ui_check"
    /\ mainpc' = "closed"
    /\ UNCHANGED <<runFrame, collectVars, active_parsers>>

\* run: the load-more button is visible and clicked.
LoadMoreClick ==
    /\ mainpc = "loop"
    /\ loop_i < clicks_to_perform
    /\ clicks' = clicks + 1
    /\ mainpc' = "clicked"
    /\ UNCHANGED <<runFrame, clicks_to_perform, loop_i, active_parsers>>

\* run: wait_for_function saw the list grow, which the page does once the
\* response of the click has arrived.
ListGrew ==
    /\ mainpc = "clicked"
    /\ fpc[clicks + 1] # "idle"
    /\ loop_i' = loop_i + 1
    /\ mainpc' = "loop"
    /\ UNCHANGED <<runFrame, clicks_to_perform, clicks, active_parsers>>

\* run: the loop is exhausted, or a wait timed out (no button within 15 s,
\* no growth within 20 s): the finally clause starts with sleep(5).
LoadMoreLoopEnds ==
    /\ mainpc \in {"loop", "clicked"}
    /\ mainpc' = "sleep"
    /\ UNCHANGED <<runFrame, collectVars, active_parsers>>

\* run: asyncio.sleep(5) is over.
SleepDone ==
    /\ mainpc = "sleep"
    /\ mainpc' = "wait_parsers"
    /\ UNCHANGED <<runFrame, collectVars, active_parsers>>

\* run: `while self.active_parsers` finds the set empty: browser.close().
\* (A non-empty set makes run sleep 0.5 s and test again.)
CloseWhenDrained ==
    /\ mainpc = "wait_parsers"
    /\ active_parsers = {}
    /\ mainpc' = "closed"
    /\ UNCHANGED <<runFrame, collectVars, active_parsers>>

\* run and main return; asyncio.run cancels the tasks that are left: one
\* that never ran never runs, one that waits gets CancelledError, which
\* `except Exception` does not catch, and its finally clause runs.
RunReturns ==
    /\ mainpc = "closed"
    /\ mainpc' = "returned"
    /\ fpc' = [p \in Pages |-> IF fpc[p] \in {"idle", "done"} THEN fpc[p]
                               ELSE "cancelled"]
    /\ caught' = [p \in Pages |-> IF fpc[p] \in {"body", "insert"}
                                  THEN "CancelledError" ELSE caught[p]]
    /\ active_parsers' = {}
    /\ UNCHANGED <<storeVars, last, workerVars0, shotVars, collectVars, attempt, permits,
                   page_batch, page_ret, response_list, callVars, total_discovered,
                   total_inserted, seenDicts, response_json, raw_body>>

NextCollectAsync ==
    \/ Navigate
    \/ UiVisible
    \/ UiCheckFails
    \/ LoadMoreClick
    \/ ListGrew
    \/ LoadMoreLoopEnds
    \/ SleepDone
    \/ CloseWhenDrained
    \/ RunReturns
    \/ \E p \in Pages :
          \/ HandleResponse(p)
          \/ ParserStart(p)
          \/ ParserBody(p)
          \/ ParserInsert(p)
          \/ ParserInsertFails(p)

SpecCollectAsync == InitCollectAsync /\ [][NextCollectAsync]_vars

\* The event loop runs every task that can run, and every wait of run ends.
SpecCollectAsyncLive == SpecCollectAsync /\ WF_vars(NextCollectAsync)

\* C36 (as claimed): the browser is closed only when every parser task that
\* _handle_response created has finished, a task that has not run its first
\* step included.
C36_DrainsBeforeClosing ==
    [][(mainpc # "closed" /\ mainpc' = "closed")
          => \A p \in Pages : fpc[p] \in {"idle", "done"}]_vars

\* C37: a task is in active_parsers only between its first step and its end,
\* whatever path ends it, and once run tests active_parsers the browser is
\* eventually closed.
C37_ShutdownTerminates ==
    /\ [](\A p \in Pages : p \in active_parsers <=> fpc[p] \in {"body", "insert"})
    /\ (mainpc = "wait_parsers" ~> mainpc = "closed")

\* C37 witness: the browser was closed after the wait loop, with one task
\* ended by a stored batch, one by a decoding error and one by a storage
\* error, and no task left in active_parsers.
C37_Witness ==
    /\ mainpc = "closed"
    /\ clicks = MaxClicks
    /\ active_parsers = {}
    /\ \A p \in Pages : fpc[p] = "done"
    /\ \E p \in Pages : caught[p] = "none" /\ page_batch[p] # <<>>
    /\ \E p \in Pages : caught[p] = "EOFError"
    /\ \E p \in Pages : caught[p] = "aiosqlite.Error"

====
